---------------------------- MODULE Spec2Model ----------------------------
(***************************************************************************)
(* Passwordless Digital Wallet: the in-memory challenge store              *)
(* (app/utils.py), the WebAuthn ceremonies (app/routes/auth.py) and the    *)
(* step-up protected wallet operations (app/routes/wallet.py).             *)
(*                                                                         *)
(* The specifications share the state:                                     *)
(*   Spec       every HTTP request runs as one atomic step (requests are   *)
(*              served one after the other);                               *)
(*   SpecStore  store_challenge / get_challenge called from threads that   *)
(*              interleave between the statements of get_challenge;        *)
(*   SpecSweep  store, get and cleanup calls into the store, in sequence;  *)
(*   SpecRevoked  Spec started with alice's credential deactivated;        *)
(*   SpecRace   two sessions of alice, the statements of their transfer    *)
(*              completions interleaved;                                   *)
(*   SpecSwitch  logins, logouts, deposits and transfers of two sessions;  *)
(*   SpecRate   calls into the rate limiter (app/utils.py);                *)
(*   SpecGuard  requests to handlers using the step-up helpers of          *)
(*              app/utils.py.                                              *)
(***************************************************************************)
EXTENDS Integers, Sequences, FiniteSets, TLC

\* ------------------------------------------------------------------ bounds
\* number of challenges the random source hands out in one run
MaxChal == 2
\* number of times the simulated clock is advanced in one run
MaxTicks == 2
\* number of store_challenge calls the threads of SpecStore make in one run
MaxStores == 2

\* default time-to-live of a stored challenge, in seconds
DefaultTTL == 300

\* The simulated clock: its k-th advance is by a whole time-to-live when k is
\* odd and by one second when k is even, so that a challenge stored at time t
\* is looked up at t + 300 (the last instant it is live) and at t + 301.
ClockStep(k) == IF k % 2 = 1 THEN DefaultTTL ELSE 1

\* ------------------------------------------------------------ byte strings
\* A byte string is a sequence of integers 0..255; Python's None is a value
\* that is no byte string.
None == <<-1>>

NoHex == <<-1, -1>>

RECURSIVE hex(_)
\* bytes.hex(): two hexadecimal digits per byte
hex(bs) ==
    IF bs = <<>> THEN <<>>
    ELSE <<bs[1] \div 16, bs[1] % 16>> \o hex(Tail(bs))

RECURSIVE fromhex(_)
\* bytes.fromhex(): one byte per pair of hexadecimal digits
fromhex(h) ==
    IF Len(h) < 2 THEN <<>>
    ELSE <<h[1] * 16 + h[2]>> \o fromhex(SubSeq(h, 3, Len(h)))

\* s[:n]
Prefix(s, n) == SubSeq(s, 1, IF Len(s) < n THEN Len(s) ELSE n)

\* the n-th challenge produced by the random source (distinct draws differ)
Challenge(n) == <<16 + n>>

\* --------------------------------------------------------- challenge store
\* key = f"webauthn_challenge:{challenge_type}:{user_id}"
ChallengeKey(challenge_type, user_id) ==
    [ctype |-> challenge_type, uid |-> user_id]

\* dict assignment d[k] = v
DictSet_setdefault_mutant(d, k, v) ==
    [x \in DOMAIN d \cup {k} |-> IF x \in DOMAIN d THEN d[x] ELSE v]

DictSet(d, k, v) == [x \in DOMAIN d \cup {k} |-> IF x = k THEN v ELSE d[x]]

\* del d[k]
DictDel(d, k) == [x \in DOMAIN d \ {k} |-> d[x]]

\* store_challenge(user_id, challenge, challenge_type, ttl) at time t:
\* the store afterwards
store_challenge(st, user_id, challenge, challenge_type, ttl, t) ==
    DictSet(st, ChallengeKey(challenge_type, user_id),
            [challenge |-> hex(challenge), expires |-> t + ttl])

\* the expiry test of get_challenge: time.time() > data.get('expires', 0)
Expired_inclusive_mutant(t, expires) == t >= expires

Expired(t, expires) == t > expires

\* del challenges[key] on the expired path
DeleteExpired_keep_mutant(st, key) == st

DeleteExpired(st, key) == DictDel(st, key)

\* del challenges[key] on the live path ("one-time use")
DeleteLive_keep_mutant(st, key) == st

DeleteLive(st, key) == DictDel(st, key)

\* the value returned for an entry that was read and found live
Decode(entry) ==
    IF entry.challenge # <<>> THEN fromhex(entry.challenge) ELSE None

\* the store after get_challenge(user_id, challenge_type) ran without
\* interruption at time t
get_challenge_store(st, user_id, challenge_type, t) ==
    LET key == ChallengeKey(challenge_type, user_id) IN
    IF key \notin DOMAIN st THEN st
    ELSE IF Expired(t, st[key].expires) THEN DeleteExpired(st, key)
    ELSE DeleteLive(st, key)

\* Python's `not challenge` for a value that is None or a byte string
Falsy(b) == b = None \/ b = <<>>

\* what get_challenge(user_id, challenge_type) returns when it runs without
\* interruption at time t
get_challenge_noexpiry_mutant(st, user_id, challenge_type, t) ==
    LET key == ChallengeKey(challenge_type, user_id) IN
    IF key \notin DOMAIN st THEN None ELSE Decode(st[key])

get_challenge(st, user_id, challenge_type, t) ==
    LET key == ChallengeKey(challenge_type, user_id) IN
    IF key \notin DOMAIN st THEN None
    ELSE IF Expired(t, st[key].expires) THEN None
    ELSE Decode(st[key])

\* the expiry test of cleanup_expired_challenges:
\* data.get('expires', 0) < current_time
SweepExpired_inclusive_mutant(t, expires) == expires <= t

SweepExpired(t, expires) == expires < t

\* expired_keys of cleanup_expired_challenges() at time t
expired_keys(st, t) == {k \in DOMAIN st : SweepExpired(t, st[k].expires)}

\* the store after cleanup_expired_challenges() ran at time t
cleanup_expired_challenges_store(st, t) ==
    [k \in DOMAIN st \ expired_keys(st, t) |-> st[k]]

\* what cleanup_expired_challenges() returns at time t: len(expired_keys)
cleanup_expired_challenges_size_mutant(st, t) == Cardinality(DOMAIN st)

cleanup_expired_challenges(st, t) == Cardinality(expired_keys(st, t))

\* ------------------------------------------------------------------- state
\* browser sessions (one server-side session dict each)
Sessions == {"s1", "s2"}

\* e-mail addresses a client can submit ("" is a missing e-mail)
Emails == {"alice", "bob", "carol"}

\* credential ids an authenticator can present
CredIds == {"k1", "k2", "k3"}

\* signature counters an authenticator can report in an assertion
Counters == {5, 6, 9}

\* signature counters an authenticator can report when it registers
RegCounters == {0}

\* pence to the pound: amounts and balances are Decimal values with two
\* places, counted here in pence
Pence == 100

\* the 'amount' field of a request body: absent (None or ''), something
\* Decimal() cannot parse, or a number
AmountMissing == [kind |-> "missing", pence |-> 0]

AmountText == [kind |-> "text", pence |-> 0]

AmountNumber(p) == [kind |-> "number", pence |-> p]

\* amounts a client can submit: nothing, "invalid", -1.00, 0, 0.50, 1.00 and
\* 10000.01
Amounts ==
    {AmountMissing, AmountText} \cup
    {AmountNumber(p) : p \in {-100, 0, 50, 100, 1000001}}

\* an absent session entry (session.get(...) is None)
NoState == [none |-> TRUE]

VARIABLES
    challenges,    \* utils._challenges: key -> [challenge (hex), expires]
    now,           \* time.time()
    ticks,         \* how often the clock was advanced
    nextChal,      \* how many challenges the random source has produced
    users,         \* table users: set of [id, email]
    credentials,   \* table webauthn_credentials
    wallets,       \* table wallets: sequence indexed by wallet id
    transactions,  \* table transactions, in insertion order
    session,       \* Flask session dict of each browser session
    last,          \* the request in service and its response (NoReply between requests)
    attempted,     \* per session: login_complete was called with its auth_state
    tried,         \* per session: register_complete was called for its latest
                   \*   registration ceremony
    pc,            \* SpecStore: position of each thread inside get_challenge
    data,          \* SpecStore: local variable data of the thread's call
    result,        \* SpecStore: what the thread's last call returned
    began,         \* SpecStore: sinceGet when the thread's call began
    undisturbed,   \* SpecStore: no store_challenge since the thread's call began
    sinceGet,      \* SpecStore: what the last completed get_challenge found,
                   \*   "" once store_challenge wrote the key again
    returned,      \* SpecStore: the challenges get_challenge has returned
    twice,         \* SpecStore: a challenge was returned to two calls
    wrongDelete,   \* SpecStore: a call deleted an entry other than the one it read
    shadow,        \* SpecSweep: the store as it would be had no sweep ever run
    api,           \* SpecSweep: the last call into the store and what it returned
    txn,           \* SpecRace: per session, the rows a transfer_complete has loaded
    rate_limit_data,   \* utils._rate_limit_data: key -> [attempts, window_start]
    rate,          \* SpecRate: the last call into the rate limiter
    stepped        \* SpecGuard: per session, time and duration of the latest
                   \*   complete_step_up_auth call

dbvars == <<users, credentials, wallets, transactions>>
storevars == <<pc, data, result, began, undisturbed, sinceGet, returned, twice,
              wrongDelete>>
sweepvars == <<shadow, api>>
utilvars == <<rate_limit_data, rate, stepped>>
routevars == <<users, credentials, wallets, transactions, session, last, attempted,
              tried>>
vars == <<challenges, now, ticks, nextChal, users, credentials, wallets,
          transactions, session, last, attempted, tried, pc, data, result, began,
          undisturbed, sinceGet, returned, twice, wrongDelete, shadow, api,
          txn, rate_limit_data, rate, stepped>>

\* the user_id strings challenges are stored under
\*   temp_<token>, <user.user_id>, dep_<user_id>_<hex16>, txf_<user_id>_<hex16>
Uid_noprefix_mutant(kind, a, b) == [kind |-> "", a |-> a, b |-> b]

Uid(kind, a, b) == [kind |-> kind, a |-> a, b |-> b]

\* ------------------------------------------------------------- the database
\* rows present when the process starts: the database file outlives the
\* process, the challenge store and the sessions do not
SeedUsers == {[id |-> 1, email |-> "alice"], [id |-> 2, email |-> "bob"]}

SeedCredentials ==
    {[credential_id |-> "k1", user_id |-> 1, sign_count |-> 5],
     [credential_id |-> "k2", user_id |-> 2, sign_count |-> 0]}

SeedWallets == <<[user_id |-> 1, balance |-> 200], [user_id |-> 2, balance |-> 0]>>

SeedTransactions ==
    <<[wallet_id |-> 1, transaction_type |-> "DEPOSIT", amount |-> 200,
       status |-> "COMPLETED", webauthn_verified |-> TRUE]>>

\* User.query.filter_by(email=email, is_active=True).first(); {} when None
UserByEmail_none_mutant(email) == {}

UserByEmail(email) == {u \in users : u.email = email}

\* User.query.filter_by(user_id=user_id, is_active=True).first()
UserById(user_id) == {u \in users : u.id = user_id}

\* WebAuthnCredential.query.filter_by(user_id=user.id, is_active=True).all()
CredentialsOf_anyone_mutant(user_id) == credentials

CredentialsOf(user_id) == {c \in credentials : c.user_id = user_id}

\* WebAuthnCredential.query.filter_by(credential_id=..., user_id=..., is_active=True)
FindCredential_any_mutant(credential_id, user_id) ==
    {c \in credentials : c.credential_id = credential_id}

FindCredential(credential_id, user_id) ==
    {c \in credentials : c.credential_id = credential_id /\ c.user_id = user_id}

\* Wallet.query.filter_by(user_id=user.id, is_active=True).first(): its id, or 0
WalletOf(user_id) ==
    IF \E i \in DOMAIN wallets : wallets[i].user_id = user_id
    THEN CHOOSE i \in DOMAIN wallets : wallets[i].user_id = user_id
    ELSE 0

\* ------------------------------------------------------ configuration
RP_ID == "localhost"

RP_ORIGIN == "https://localhost:5000"

\* host part of an https origin
OriginHost(o) ==
    CASE o = "https://localhost:5000" -> "localhost"
      [] o = "https://localhost:8443" -> "localhost"
      [] OTHER -> "evil.example"

\* Fido2Server(rp) built without a verify_origin argument: the library's default
\* accepts an https origin whose host is the RP ID
verify_origin(o) == OriginHost(o) = RP_ID

\* user_verification passed to register_begin / authenticate_begin
RegisterVerification == "preferred"

LoginVerification == "preferred"

DepositVerification_mutant == "preferred"

DepositVerification == "required"

TransferVerification == "required"

\* 'userVerification' in the options each begin route returns
RegisterOptionsVerification == "preferred"

LoginOptionsVerification == "preferred"

DepositOptionsVerification == "required"

TransferOptionsVerification_mutant == "preferred"

TransferOptionsVerification == "required"

\* ------------------------------------------------- authenticator responses
\* A response with every check passing, and the responses that differ from it
\* in one field.  sig says whether the signature verifies under the public key
\* stored for the credential named by rawId.
GoodShape ==
    [origin |-> RP_ORIGIN, rp |-> RP_ID, up |-> TRUE, uv |-> TRUE, sig |-> TRUE,
     wrongtype |-> FALSE]

Shapes ==
    {GoodShape,
     [GoodShape EXCEPT !.origin = "https://localhost:8443"],
     [GoodShape EXCEPT !.origin = "https://evil.example"],
     [GoodShape EXCEPT !.up = FALSE],
     [GoodShape EXCEPT !.uv = FALSE],
     [GoodShape EXCEPT !.sig = FALSE]}

\* the counters to try with a shape: the routes read the counter of an
\* accepted response only
CountersFor(sh) == IF sh = GoodShape THEN Counters ELSE {5}

\* the credential ids to try in an attestation with a shape
CredIdsFor(sh) == IF sh = GoodShape THEN CredIds \cup {""} ELSE {"k3"}

\* an assertion: data['rawId'], clientDataJSON (type, origin, challenge),
\* authenticatorData (rp id hash, flags, counter) and the signature
Assertion(sh, rawId, challenge, counter) ==
    [type |-> IF sh.wrongtype THEN "webauthn.create" ELSE "webauthn.get",
     origin |-> sh.origin, rp |-> sh.rp, up |-> sh.up, uv |-> sh.uv,
     sig |-> sh.sig, rawId |-> rawId, challenge |-> challenge,
     counter |-> counter]

\* an attestation: clientDataJSON and the attestation object; credId "" is an
\* attestation object without attested credential data
Attestation(sh, credId, challenge, counter) ==
    [type |-> IF sh.wrongtype THEN "webauthn.get" ELSE "webauthn.create",
     origin |-> sh.origin, rp |-> sh.rp, up |-> sh.up, uv |-> sh.uv,
     credId |-> credId, challenge |-> challenge, counter |-> counter]

\* the state Fido2Server keeps between begin and complete
\* (cbor-encoded into the session and decoded again by the complete route)
ServerState(challenge, user_verification) ==
    [challenge |-> challenge, user_verification |-> user_verification]

\* Fido2Server.authenticate_complete(state, [cred], credential_id, client_data,
\* auth_data, signature): "ok", or the check that raised
authenticate_complete_nosignature_mutant(state, a) ==
    IF a.type # "webauthn.get" THEN "type"
    ELSE IF ~verify_origin(a.origin) THEN "origin"
    ELSE IF state.challenge # a.challenge THEN "challenge"
    ELSE IF a.rp # RP_ID THEN "rp_id_hash"
    ELSE IF ~a.up THEN "user_present"
    ELSE IF state.user_verification = "required" /\ ~a.uv THEN "user_verification"
    ELSE "ok"

authenticate_complete(state, a) ==
    IF a.type # "webauthn.get" THEN "type"
    ELSE IF ~verify_origin(a.origin) THEN "origin"
    ELSE IF state.challenge # a.challenge THEN "challenge"
    ELSE IF a.rp # RP_ID THEN "rp_id_hash"
    ELSE IF ~a.up THEN "user_present"
    ELSE IF state.user_verification = "required" /\ ~a.uv THEN "user_verification"
    ELSE IF ~a.sig THEN "signature"
    ELSE "ok"

\* Fido2Server.register_complete(state, client_data, attestation_object)
fido2_register_complete_nochallenge_mutant(state, a) ==
    IF a.type # "webauthn.create" THEN "type"
    ELSE IF ~verify_origin(a.origin) THEN "origin"
    ELSE IF a.rp # RP_ID THEN "rp_id_hash"
    ELSE IF ~a.up THEN "user_present"
    ELSE IF state.user_verification = "required" /\ ~a.uv THEN "user_verification"
    ELSE IF a.credId = "" THEN "credential_data"
    ELSE "ok"

fido2_register_complete(state, a) ==
    IF a.type # "webauthn.create" THEN "type"
    ELSE IF ~verify_origin(a.origin) THEN "origin"
    ELSE IF state.challenge # a.challenge THEN "challenge"
    ELSE IF a.rp # RP_ID THEN "rp_id_hash"
    ELSE IF ~a.up THEN "user_present"
    ELSE IF state.user_verification = "required" /\ ~a.uv THEN "user_verification"
    ELSE IF a.credId = "" THEN "credential_data"
    ELSE "ok"

\* verify_step_up_auth(user, data, state, credential)
verify_step_up_auth(state, a) == authenticate_complete(state, a)

\* ------------------------------------------------------- sessions, replies
EmptySession ==
    [registration_state |-> NoState, auth_state |-> NoState,
     pending_deposit |-> NoState, pending_transfer |-> NoState,
     authenticated |-> FALSE, user_id |-> 0, email |-> "",
     user |-> NoState, step_up_required |-> FALSE, step_up_redirect |-> ""]

NoKey == ChallengeKey("", Uid("", 0, <<>>))

\* the request served and its response: op, session, HTTP status and the reason
\* of a failure; the other fields are filled in by the routes that have them
Reply_accept_mutant(op, s, status, err) ==
    [op |-> op, sess |-> s, status |-> 200, err |-> "", uv |-> TRUE,
     counter |-> 0, stored |-> 0, signed |-> None, consumed |-> None,
     origin |-> "", rawId |-> "", reused |-> FALSE, lookup |-> FALSE,
     key |-> NoKey, options |-> "", balance |-> -1, total |-> -1,
     email |-> "", amount |-> -1, recipient |-> ""]

Reply(op, s, status, err) ==
    [op |-> op, sess |-> s, status |-> status, err |-> err,
     uv |-> TRUE,          \* user-verified flag of an assertion that was verified
     counter |-> 0,        \* counter of an accepted assertion
     stored |-> 0,         \* sign_count of the credential before an accepted assertion
     signed |-> None,      \* challenge in the client data of an accepted response
     consumed |-> None,    \* challenge get_challenge returned to this request
     origin |-> "",        \* origin in the client data of an accepted response
     rawId |-> "",         \* credential id of the response, once the route read it
     reused |-> FALSE,     \* login_complete was called with this auth_state before
     lookup |-> FALSE,     \* the route called get_challenge
     key |-> NoKey,        \* the key it looked up
     options |-> "",       \* 'userVerification' in the options of a begin route
     balance |-> -1,       \* 'balance' in the body of a get_balance response
     total |-> -1,         \* 'total' in the body of a get_transactions response
     email |-> "",         \* the email register_begin or logout read
     amount |-> -1,        \* the amount a begin route read and accepted
     recipient |-> ""]     \* the recipient_email transfer_begin read and accepted

\* no request is in service
NoReply == Reply("", "", 0, "")

\* the response of the last request has been sent: the next can be taken up
Ready == last = NoReply

\* the failures that happen before the route reads data['rawId']
ReadsRawId(err) == err \notin {"challenge_expired", "invalid_credentials"}

\* the failures that happen before the assertion is handed to the verifier
Verified(err) ==
    err \notin {"challenge_expired", "invalid_credentials", "credential_not_found"}

\* the next challenge of the random source
NewChallenge == Challenge(nextChal + 1)

\* ------------------------------------------------------------ routes/auth
\* POST /auth/register/begin
register_begin(s, email) ==
    /\ UNCHANGED <<now, ticks, dbvars, attempted, storevars, sweepvars, txn, utilvars>>
    /\ IF email = "" THEN
           /\ last' = Reply("register_begin", s, 400, "missing")
           /\ UNCHANGED <<challenges, nextChal, session, tried>>
       ELSE IF UserByEmail(email) # {} THEN
           /\ last' = [Reply("register_begin", s, 409, "user_exists") EXCEPT
                          !.email = email]
           /\ UNCHANGED <<challenges, nextChal, session, tried>>
       ELSE
           LET temp_user_id == Uid("temp", nextChal + 1, <<>>)
               challenge == NewChallenge
               state == ServerState(challenge, RegisterVerification)
           IN
           /\ nextChal < MaxChal
           /\ nextChal' = nextChal + 1
           /\ challenges' = store_challenge(challenges, temp_user_id, challenge,
                                            "registration", DefaultTTL, now)
           /\ session' = [session EXCEPT ![s].registration_state =
                             [temp_user_id |-> temp_user_id, email |-> email,
                              state |-> state]]
           /\ tried' = [tried EXCEPT ![s] = FALSE]
           /\ last' = [Reply("register_begin", s, 200, "") EXCEPT
                          !.email = email,
                          !.options = RegisterOptionsVerification]

\* webauthn_credentials.credential_id is unique: the commit of a row whose
\* credential_id is stored already raises IntegrityError
CredentialIdTaken_never_mutant(credential_id) == FALSE

CredentialIdTaken(credential_id) ==
    \E c \in credentials : c.credential_id = credential_id

\* Wallet(user_id=user.id): the balance column defaults to 0.00
NewWallet_funded_mutant(user_id) == [user_id |-> user_id, balance |-> 1]

NewWallet(user_id) == [user_id |-> user_id, balance |-> 0]

\* POST /auth/register/complete
register_complete(s, a) ==
    LET reg_state == session[s].registration_state IN
    /\ UNCHANGED <<now, ticks, nextChal, transactions, attempted, storevars, sweepvars, txn, utilvars>>
    /\ IF reg_state = NoState THEN
           /\ last' = Reply("register_complete", s, 400, "no_state")
           /\ UNCHANGED <<challenges, users, credentials, wallets, session, tried>>
       ELSE
           LET temp_user_id == reg_state.temp_user_id
               challenge == get_challenge(challenges, temp_user_id, "registration", now)
               verdict == fido2_register_complete(reg_state.state, a)
               new_id == Cardinality(users) + 1
               err == IF Falsy(challenge) THEN "challenge_expired"
                      ELSE IF verdict # "ok" THEN verdict
                      \* users.email is unique: flush raises IntegrityError
                      ELSE IF UserByEmail(reg_state.email) # {} THEN "integrity_email"
                      ELSE IF CredentialIdTaken(a.credId) THEN "integrity_credential"
                      ELSE ""
               reply == [Reply("register_complete", s,
                               IF err = "" THEN 201
                               ELSE IF err = "challenge_expired" THEN 400 ELSE 500,
                               err)
                         EXCEPT !.lookup = TRUE, !.consumed = challenge,
                                !.key = ChallengeKey("registration", temp_user_id),
                                !.rawId = IF err = "integrity_credential"
                                          THEN a.credId ELSE ""]
           IN
           /\ challenges' = get_challenge_store(challenges, temp_user_id,
                                                "registration", now)
           /\ tried' = [tried EXCEPT ![s] = TRUE]
           /\ IF err = "" THEN
                  /\ users' = users \cup {[id |-> new_id, email |-> reg_state.email]}
                  /\ credentials' = credentials \cup
                         {[credential_id |-> a.credId, user_id |-> new_id,
                           sign_count |-> a.counter]}
                  /\ wallets' = Append(wallets, NewWallet(new_id))
                  /\ session' = [session EXCEPT ![s].registration_state = NoState]
                  /\ last' = [reply EXCEPT !.signed = a.challenge,
                                           !.origin = a.origin,
                                           !.rawId = a.credId,
                                           !.counter = a.counter]
              ELSE
                  /\ last' = reply
                  /\ UNCHANGED <<users, credentials, wallets, session>>

\* the 'error' text of a register_complete response that failed for err
RegisterCompleteError(err) ==
    CASE err = "no_state" -> "No registration in progress"
      [] err = "challenge_expired" -> "Challenge expired or invalid"
      [] OTHER -> "Registration verification failed"

\* POST /auth/login/begin
login_begin(s, email) ==
    /\ UNCHANGED <<now, ticks, dbvars, tried, storevars, sweepvars, txn, utilvars>>
    /\ IF email = "" THEN
           /\ last' = Reply("login_begin", s, 400, "missing")
           /\ UNCHANGED <<challenges, nextChal, session, attempted>>
       ELSE IF UserByEmail(email) = {} THEN
           /\ last' = Reply("login_begin", s, 401, "invalid_credentials")
           /\ UNCHANGED <<challenges, nextChal, session, attempted>>
       ELSE
           LET user == CHOOSE u \in UserByEmail(email) : TRUE IN
           IF CredentialsOf(user.id) = {} THEN
               /\ last' = Reply("login_begin", s, 401, "no_credentials")
               /\ UNCHANGED <<challenges, nextChal, session, attempted>>
           ELSE
               LET challenge == NewChallenge
                   state == ServerState(challenge, LoginVerification)
               IN
               /\ nextChal < MaxChal
               /\ nextChal' = nextChal + 1
               /\ challenges' = store_challenge(challenges, Uid("user", user.id, <<>>),
                                                challenge, "registration",
                                                DefaultTTL, now)
               /\ session' = [session EXCEPT ![s].auth_state =
                                 [user_id |-> user.id, email |-> email,
                                  state |-> state]]
               /\ attempted' = [attempted EXCEPT ![s] = FALSE]
               /\ last' = [Reply("login_begin", s, 200, "") EXCEPT
                              !.options = LoginOptionsVerification]

\* credential.sign_count after an accepted assertion with counter `counter`
NextSignCount_reported_mutant(sign_count, counter) == counter

NextSignCount(sign_count, counter) == sign_count + 1

\* the session login_complete leaves: session.clear(), then the three keys
\* of a logged-in session
LoginSession_keep_mutant(old, user) ==
    [old EXCEPT !.auth_state = NoState, !.user_id = user.id,
                !.email = user.email, !.authenticated = TRUE]

LoginSession(old, user) ==
    [EmptySession EXCEPT !.user_id = user.id, !.email = user.email,
                         !.authenticated = TRUE]

\* POST /auth/login/complete
login_complete(s, a) ==
    LET auth_state == session[s].auth_state IN
    /\ UNCHANGED <<now, ticks, nextChal, users, wallets, transactions, tried,
                   storevars, sweepvars, txn, utilvars>>
    /\ IF auth_state = NoState THEN
           /\ last' = Reply("login_complete", s, 400, "no_state")
           /\ UNCHANGED <<challenges, credentials, session, attempted>>
       ELSE
           LET user_id == auth_state.user_id
               uid == Uid("user", user_id, <<>>)
               challenge == get_challenge(challenges, uid, "registration", now)
               found == FindCredential(a.rawId, user_id)
               err == IF Falsy(challenge) THEN "challenge_expired"
                      ELSE IF UserById(user_id) = {} THEN "invalid_credentials"
                      ELSE IF found = {} THEN "credential_not_found"
                      ELSE authenticate_complete(auth_state.state, a)
               reply == [Reply("login_complete", s,
                               IF err = "ok" THEN 200
                               ELSE IF err = "challenge_expired" THEN 400 ELSE 401,
                               IF err = "ok" THEN "" ELSE err)
                         EXCEPT !.uv = Verified(err) => a.uv,
                                !.lookup = TRUE, !.consumed = challenge,
                                !.key = ChallengeKey("registration", uid),
                                !.rawId = IF ReadsRawId(err) THEN a.rawId ELSE "",
                                !.reused = attempted[s]]
           IN
           /\ challenges' = get_challenge_store(challenges, uid, "registration", now)
           /\ IF err = "ok" THEN
                  LET credential == CHOOSE c \in found : TRUE
                      user == CHOOSE u \in UserById(user_id) : TRUE
                  IN
                  /\ credentials' = (credentials \ {credential}) \cup
                         {[credential EXCEPT !.sign_count =
                              NextSignCount(credential.sign_count, a.counter)]}
                  /\ session' = [session EXCEPT ![s] = LoginSession(session[s], user)]
                  /\ last' = [reply EXCEPT !.signed = a.challenge,
                                           !.origin = a.origin,
                                           !.rawId = a.rawId,
                                           !.counter = a.counter,
                                           !.stored = credential.sign_count]
                  /\ attempted' = [attempted EXCEPT ![s] = FALSE]
              ELSE
                  /\ last' = reply
                  /\ attempted' = [attempted EXCEPT ![s] = TRUE]
                  /\ UNCHANGED <<credentials, session>>

\* POST /auth/logout
logout_flag_mutant(s) ==
    /\ session' = [session EXCEPT ![s].authenticated = FALSE]
    /\ attempted' = [attempted EXCEPT ![s] = FALSE]
    /\ last' = [Reply("logout", s, 200, "") EXCEPT !.email = session[s].email]
    /\ UNCHANGED <<challenges, now, ticks, nextChal, dbvars, tried, storevars, sweepvars, txn, utilvars>>

logout(s) ==
    /\ session' = [session EXCEPT ![s] = EmptySession]
    /\ attempted' = [attempted EXCEPT ![s] = FALSE]
    /\ last' = [Reply("logout", s, 200, "") EXCEPT !.email = session[s].email]
    /\ UNCHANGED <<challenges, now, ticks, nextChal, dbvars, tried, storevars, sweepvars, txn, utilvars>>

\* ---------------------------------------------------------- routes/wallet
\* largest deposit accepted
MaxDeposit == 10000

\* smallest deposit or transfer accepted
MinAmount == 1

\* get_current_user(): the rows matching session['user_id']
get_current_user(s) ==
    IF session[s].user_id = 0 THEN {} ELSE UserById(session[s].user_id)

Gate_open_mutant(s) ==
    IF get_current_user(s) = {} THEN "user_not_found" ELSE ""

\* the checks every wallet route makes before its body: login_required, then
\* get_current_user(); "" when both pass
Gate(s) ==
    IF ~session[s].authenticated THEN "unauthenticated"
    ELSE IF get_current_user(s) = {} THEN "user_not_found"
    ELSE ""

GateStatus(g) == IF g = "unauthenticated" THEN 401 ELSE 404

\* GET /wallet/balance
get_balance(s) ==
    /\ UNCHANGED <<challenges, now, ticks, nextChal, dbvars, session, attempted,
                   tried, storevars, sweepvars, txn, utilvars>>
    /\ IF Gate(s) # "" THEN
           last' = Reply("get_balance", s, GateStatus(Gate(s)), Gate(s))
       ELSE
           LET user == CHOOSE u \in get_current_user(s) : TRUE
               wallet == WalletOf(user.id)
           IN
           IF wallet = 0 THEN
               last' = Reply("get_balance", s, 404, "wallet_not_found")
           ELSE
               last' = [Reply("get_balance", s, 200, "") EXCEPT
                           !.balance = wallets[wallet].balance]

\* GET /wallet/transactions
get_transactions(s) ==
    /\ UNCHANGED <<challenges, now, ticks, nextChal, dbvars, session, attempted,
                   tried, storevars, sweepvars, txn, utilvars>>
    /\ IF Gate(s) # "" THEN
           last' = Reply("get_transactions", s, GateStatus(Gate(s)), Gate(s))
       ELSE
           LET user == CHOOSE u \in get_current_user(s) : TRUE
               wallet == WalletOf(user.id)
           IN
           IF wallet = 0 THEN
               last' = Reply("get_transactions", s, 404, "wallet_not_found")
           ELSE
               last' = [Reply("get_transactions", s, 200, "") EXCEPT
                           !.total = Cardinality(
                               {i \in DOMAIN transactions :
                                   transactions[i].wallet_id = wallet})]

\* the amount checks of deposit_begin: "" when the amount passes
DepositAmountError_nominimum_mutant(amount_str) ==
    IF amount_str.kind = "missing" THEN "amount_missing"
    ELSE IF amount_str.kind = "text" THEN "amount_invalid"
    ELSE IF amount_str.pence <= 0 THEN "amount"
    ELSE IF amount_str.pence > MaxDeposit * Pence THEN "amount"
    ELSE ""

DepositAmountError(amount_str) ==
    IF amount_str.kind = "missing" THEN "amount_missing"
    \* Decimal(str(amount_str)) raises InvalidOperation
    ELSE IF amount_str.kind = "text" THEN "amount_invalid"
    ELSE IF amount_str.pence <= 0 THEN "amount"
    ELSE IF amount_str.pence > MaxDeposit * Pence THEN "amount"
    ELSE IF amount_str.pence < MinAmount * Pence THEN "amount"
    ELSE ""

\* session['pending_deposit'] = {...}, session['pending_transfer'] = {...}
SetPending_first_mutant(sess, entry, pending) ==
    IF sess[entry] = NoState THEN [sess EXCEPT ![entry] = pending] ELSE sess

SetPending(sess, entry, pending) == [sess EXCEPT ![entry] = pending]

\* POST /wallet/deposit/begin
deposit_begin(s, amount_str) ==
    LET amount == amount_str.pence IN
    /\ UNCHANGED <<now, ticks, dbvars, attempted, tried, storevars, sweepvars, txn, utilvars>>
    /\ IF Gate(s) # "" THEN
           /\ last' = Reply("deposit_begin", s, GateStatus(Gate(s)), Gate(s))
           /\ UNCHANGED <<challenges, nextChal, session>>
       ELSE IF DepositAmountError(amount_str) # "" THEN
           /\ last' = Reply("deposit_begin", s, 400, DepositAmountError(amount_str))
           /\ UNCHANGED <<challenges, nextChal, session>>
       ELSE
           LET user == CHOOSE u \in get_current_user(s) : TRUE IN
           IF CredentialsOf(user.id) = {} THEN
               /\ last' = Reply("deposit_begin", s, 401, "no_credentials")
               /\ UNCHANGED <<challenges, nextChal, session>>
           ELSE
               LET challenge == NewChallenge
                   state == ServerState(challenge, DepositVerification)
                   transaction_id == Uid("dep", user.id, Prefix(hex(challenge), 16))
               IN
               /\ nextChal < MaxChal
               /\ nextChal' = nextChal + 1
               /\ challenges' = store_challenge(challenges, transaction_id, challenge,
                                                "registration", DefaultTTL, now)
               /\ session' = [session EXCEPT ![s] =
                      SetPending(session[s], "pending_deposit",
                                 [transaction_id |-> transaction_id,
                                  amount |-> amount, state |-> state])]
               /\ last' = [Reply("deposit_begin", s, 200, "") EXCEPT
                              !.options = DepositOptionsVerification,
                              !.amount = amount]

StepUp_unverified_mutant(pending, user, a) ==
    LET challenge == get_challenge(challenges, pending.transaction_id,
                                   "registration", now)
    IN
    IF Falsy(challenge) THEN "challenge_expired"
    ELSE IF FindCredential(a.rawId, user.id) = {} THEN "credential_not_found"
    ELSE "ok"

\* the part deposit_complete and transfer_complete share: look the challenge
\* up, find the credential, verify the assertion; "ok" or the failure
StepUp(pending, user, a) ==
    LET challenge == get_challenge(challenges, pending.transaction_id,
                                   "registration", now)
    IN
    IF Falsy(challenge) THEN "challenge_expired"
    ELSE IF FindCredential(a.rawId, user.id) = {} THEN "credential_not_found"
    ELSE verify_step_up_auth(pending.state, a)

StepUpStatus(err) ==
    CASE err = "ok" -> 200
      [] err = "challenge_expired" -> 400
      [] err = "credential_not_found" -> 401
      [] err = "wallet_not_found" -> 404
      [] err = "insufficient_balance" -> 400
      [] OTHER -> 500

\* the reply of a completion that got as far as get_challenge
StepUpReply(op, s, pending, err, a) ==
    [Reply(op, s, StepUpStatus(err), IF err = "ok" THEN "" ELSE err)
     EXCEPT !.uv = Verified(err) => a.uv, !.lookup = TRUE,
            !.consumed = get_challenge(challenges, pending.transaction_id,
                                       "registration", now),
            !.key = ChallengeKey("registration", pending.transaction_id),
            !.rawId = IF ReadsRawId(err) THEN a.rawId ELSE ""]

\* the reply of an accepted assertion
Accepted(reply, a, credential) ==
    [reply EXCEPT !.signed = a.challenge, !.origin = a.origin, !.rawId = a.rawId,
                  !.counter = a.counter, !.stored = credential.sign_count]

\* POST /wallet/deposit/complete
deposit_complete(s, a) ==
    LET pending == session[s].pending_deposit IN
    /\ UNCHANGED <<now, ticks, nextChal, users, attempted, tried, storevars, sweepvars, txn, utilvars>>
    /\ IF Gate(s) # "" THEN
           /\ last' = Reply("deposit_complete", s, GateStatus(Gate(s)), Gate(s))
           /\ UNCHANGED <<challenges, credentials, wallets, transactions, session>>
       ELSE IF pending = NoState THEN
           /\ last' = Reply("deposit_complete", s, 400, "no_state")
           /\ UNCHANGED <<challenges, credentials, wallets, transactions, session>>
       ELSE
           LET user == CHOOSE u \in get_current_user(s) : TRUE
               verdict == StepUp(pending, user, a)
               wallet == WalletOf(user.id)
               err == IF verdict # "ok" THEN verdict
                      ELSE IF wallet = 0 THEN "wallet_not_found"
                      ELSE "ok"
               reply == StepUpReply("deposit_complete", s, pending, err, a)
           IN
           /\ challenges' = get_challenge_store(challenges, pending.transaction_id,
                                                "registration", now)
           /\ IF err = "ok" THEN
                  LET credential == CHOOSE c \in FindCredential(a.rawId, user.id) : TRUE
                  IN
                  /\ transactions' = Append(transactions,
                         [wallet_id |-> wallet, transaction_type |-> "DEPOSIT",
                          amount |-> pending.amount, status |-> "COMPLETED",
                          webauthn_verified |-> TRUE])
                  /\ wallets' = [wallets EXCEPT ![wallet].balance = @ + pending.amount]
                  /\ credentials' = (credentials \ {credential}) \cup
                         {[credential EXCEPT !.sign_count =
                              NextSignCount(credential.sign_count, a.counter)]}
                  /\ session' = [session EXCEPT ![s].pending_deposit = NoState]
                  /\ last' = Accepted(reply, a, credential)
              ELSE
                  /\ last' = reply
                  /\ UNCHANGED <<credentials, wallets, transactions, session>>

\* the recipient checks of transfer_begin: "" when the recipient passes
RecipientError_self_mutant(user, recipient_email) ==
    IF recipient_email = "" THEN "recipient_missing"
    ELSE IF UserByEmail(recipient_email) = {} THEN "recipient_not_found"
    ELSE ""

RecipientError(user, recipient_email) ==
    IF recipient_email = "" THEN "recipient_missing"
    ELSE IF recipient_email = user.email THEN "self_transfer"
    ELSE IF UserByEmail(recipient_email) = {} THEN "recipient_not_found"
    ELSE ""

\* the amount checks of transfer_begin: "" when the amount passes
TransferAmountError(amount_str) ==
    IF amount_str.kind = "missing" THEN "amount_missing"
    ELSE IF amount_str.kind = "text" THEN "amount_invalid"
    ELSE IF amount_str.pence <= 0 THEN "amount"
    ELSE IF amount_str.pence < MinAmount * Pence THEN "amount"
    ELSE ""

\* POST /wallet/transfer/begin
transfer_begin(s, recipient_email, amount_str) ==
    LET amount == amount_str.pence IN
    /\ UNCHANGED <<now, ticks, dbvars, attempted, tried, storevars, sweepvars, txn, utilvars>>
    /\ IF Gate(s) # "" THEN
           /\ last' = Reply("transfer_begin", s, GateStatus(Gate(s)), Gate(s))
           /\ UNCHANGED <<challenges, nextChal, session>>
       ELSE
           LET user == CHOOSE u \in get_current_user(s) : TRUE
               wallet == WalletOf(user.id)
               err == IF RecipientError(user, recipient_email) # ""
                           THEN RecipientError(user, recipient_email)
                      ELSE IF TransferAmountError(amount_str) # ""
                           THEN TransferAmountError(amount_str)
                      ELSE IF wallet = 0 THEN "wallet_not_found"
                      ELSE IF wallets[wallet].balance < amount THEN "insufficient_balance"
                      ELSE IF CredentialsOf(user.id) = {} THEN "no_credentials"
                      ELSE ""
               status == CASE err \in {"recipient_not_found", "wallet_not_found"} -> 404
                           [] err = "no_credentials" -> 401
                           [] OTHER -> 400
           IN
           IF err # "" THEN
               /\ last' = Reply("transfer_begin", s, status, err)
               /\ UNCHANGED <<challenges, nextChal, session>>
           ELSE
               LET recipient == CHOOSE u \in UserByEmail(recipient_email) : TRUE
                   challenge == NewChallenge
                   state == ServerState(challenge, TransferVerification)
                   transaction_id == Uid("txf", user.id, Prefix(hex(challenge), 16))
               IN
               /\ nextChal < MaxChal
               /\ nextChal' = nextChal + 1
               /\ challenges' = store_challenge(challenges, transaction_id, challenge,
                                                "registration", DefaultTTL, now)
               /\ session' = [session EXCEPT ![s] =
                      SetPending(session[s], "pending_transfer",
                                 [transaction_id |-> transaction_id,
                                  recipient_email |-> recipient_email,
                                  recipient_id |-> recipient.id,
                                  amount |-> amount, state |-> state])]
               /\ last' = [Reply("transfer_begin", s, 200, "") EXCEPT
                              !.options = TransferOptionsVerification,
                              !.amount = amount,
                              !.recipient = recipient_email]

\* POST /wallet/transfer/complete
transfer_complete(s, a) ==
    LET pending == session[s].pending_transfer IN
    /\ UNCHANGED <<now, ticks, nextChal, users, attempted, tried, storevars, sweepvars, txn, utilvars>>
    /\ IF Gate(s) # "" THEN
           /\ last' = Reply("transfer_complete", s, GateStatus(Gate(s)), Gate(s))
           /\ UNCHANGED <<challenges, credentials, wallets, transactions, session>>
       ELSE IF pending = NoState THEN
           /\ last' = Reply("transfer_complete", s, 400, "no_state")
           /\ UNCHANGED <<challenges, credentials, wallets, transactions, session>>
       ELSE
           LET user == CHOOSE u \in get_current_user(s) : TRUE
               verdict == StepUp(pending, user, a)
               sender_wallet == WalletOf(user.id)
               recipient_wallet == WalletOf(pending.recipient_id)
               err == IF verdict # "ok" THEN verdict
                      \* User.query.get(recipient_id) is None: recipient.id raises
                      ELSE IF UserById(pending.recipient_id) = {} THEN "recipient_gone"
                      ELSE IF sender_wallet = 0 \/ recipient_wallet = 0
                           THEN "wallet_not_found"
                      ELSE IF wallets[sender_wallet].balance < pending.amount
                           THEN "insufficient_balance"
                      ELSE "ok"
               reply == StepUpReply("transfer_complete", s, pending, err, a)
           IN
           /\ challenges' = get_challenge_store(challenges, pending.transaction_id,
                                                "registration", now)
           /\ IF err = "ok" THEN
                  LET credential == CHOOSE c \in FindCredential(a.rawId, user.id) : TRUE
                  IN
                  /\ transactions' = transactions \o
                         <<[wallet_id |-> sender_wallet,
                            transaction_type |-> "TRANSFER_OUT",
                            amount |-> pending.amount, status |-> "COMPLETED",
                            webauthn_verified |-> TRUE],
                           [wallet_id |-> recipient_wallet,
                            transaction_type |-> "TRANSFER_IN",
                            amount |-> pending.amount, status |-> "COMPLETED",
                            webauthn_verified |-> TRUE]>>
                  /\ wallets' = [wallets EXCEPT
                         ![sender_wallet].balance = @ - pending.amount,
                         ![recipient_wallet].balance = @ + pending.amount]
                  /\ credentials' = (credentials \ {credential}) \cup
                         {[credential EXCEPT !.sign_count =
                              NextSignCount(credential.sign_count, a.counter)]}
                  /\ session' = [session EXCEPT ![s].pending_transfer = NoState]
                  /\ last' = Accepted(reply, a, credential)
              ELSE
                  /\ last' = reply
                  /\ UNCHANGED <<credentials, wallets, transactions, session>>

\* ------------------------------------- transfer_complete, statement-wise
\* Requests of different sessions run in different threads, each with its own
\* database session: the rows a request has loaded keep the values they were
\* loaded with until it commits.
NoTxn == [loaded |-> FALSE]

\* sender_wallet.balance -= amount, on the row as the request loaded it; the
\* UPDATE writes the resulting value
Debit_current_mutant(loaded, current, amount) == current - amount

Debit(loaded, current, amount) == loaded - amount

\* recipient_wallet.balance += amount, likewise
Credit(loaded, current, amount) == loaded + amount

\* transfer_complete up to its balance check: the challenge is consumed, the
\* assertion verified and the rows loaded; a failure answers at once
TransferLoad(s, a) ==
    LET pending == session[s].pending_transfer IN
    /\ txn[s] = NoTxn
    /\ UNCHANGED <<now, ticks, nextChal, dbvars, session, attempted, tried,
                   storevars, sweepvars, utilvars>>
    /\ IF Gate(s) # "" THEN
           /\ last' = Reply("transfer_complete", s, GateStatus(Gate(s)), Gate(s))
           /\ UNCHANGED <<challenges, txn>>
       ELSE IF pending = NoState THEN
           /\ last' = Reply("transfer_complete", s, 400, "no_state")
           /\ UNCHANGED <<challenges, txn>>
       ELSE
           LET user == CHOOSE u \in get_current_user(s) : TRUE
               verdict == StepUp(pending, user, a)
               sender_wallet == WalletOf(user.id)
               recipient_wallet == WalletOf(pending.recipient_id)
               err == IF verdict # "ok" THEN verdict
                      ELSE IF UserById(pending.recipient_id) = {} THEN "recipient_gone"
                      ELSE IF sender_wallet = 0 \/ recipient_wallet = 0
                           THEN "wallet_not_found"
                      ELSE IF wallets[sender_wallet].balance < pending.amount
                           THEN "insufficient_balance"
                      ELSE "ok"
               reply == StepUpReply("transfer_complete", s, pending, err, a)
           IN
           /\ challenges' = get_challenge_store(challenges, pending.transaction_id,
                                                "registration", now)
           /\ IF err = "ok" THEN
                  LET credential == CHOOSE c \in FindCredential(a.rawId, user.id) : TRUE
                  IN
                  /\ txn' = [txn EXCEPT ![s] =
                         [loaded |-> TRUE,
                          sender_wallet |-> sender_wallet,
                          sender_balance |-> wallets[sender_wallet].balance,
                          recipient_wallet |-> recipient_wallet,
                          recipient_balance |-> wallets[recipient_wallet].balance,
                          amount |-> pending.amount,
                          credential |-> credential,
                          counter |-> a.counter,
                          reply |-> Accepted(reply, a, credential)]]
                  /\ UNCHANGED last
              ELSE
                  /\ last' = reply
                  /\ UNCHANGED txn

\* the rest of transfer_complete: the two Transaction rows, the balances and
\* the sign_count are written and committed, pending_transfer is popped
TransferCommit(s) ==
    LET t == txn[s] IN
    /\ t # NoTxn
    /\ transactions' = transactions \o
           <<[wallet_id |-> t.sender_wallet, transaction_type |-> "TRANSFER_OUT",
              amount |-> t.amount, status |-> "COMPLETED",
              webauthn_verified |-> TRUE],
             [wallet_id |-> t.recipient_wallet, transaction_type |-> "TRANSFER_IN",
              amount |-> t.amount, status |-> "COMPLETED",
              webauthn_verified |-> TRUE]>>
    /\ wallets' = [wallets EXCEPT
           ![t.sender_wallet].balance =
               Debit(t.sender_balance, wallets[t.sender_wallet].balance, t.amount),
           ![t.recipient_wallet].balance =
               Credit(t.recipient_balance, wallets[t.recipient_wallet].balance,
                      t.amount)]
    /\ credentials' =
           {c \in credentials : c.credential_id # t.credential.credential_id} \cup
           {[t.credential EXCEPT !.sign_count =
                NextSignCount(t.credential.sign_count, t.counter)]}
    /\ session' = [session EXCEPT ![s].pending_transfer = NoState]
    /\ last' = t.reply
    /\ txn' = [txn EXCEPT ![s] = NoTxn]
    /\ UNCHANGED <<challenges, now, ticks, nextChal, users, attempted, tried,
                   storevars, sweepvars, utilvars>>

\* the clock advances between requests
Tick ==
    /\ ticks < MaxTicks
    /\ ticks' = ticks + 1
    /\ now' = now + ClockStep(ticks + 1)
    /\ UNCHANGED <<challenges, nextChal, routevars, storevars, sweepvars, txn, utilvars>>

\* ------------------------------------------------- threads on the store
\* request threads that call into the challenge store
Threads == {"t1", "t2"}

\* the user_id argument they call it with: the race is for one key
StoreUid == Uid("user", 1, <<>>)

StoreKey == ChallengeKey("registration", StoreUid)

NoEntry == [challenge |-> NoHex, expires |-> 0]

\* the call of thread t returns ret, having found `found` under the key;
\* sinceGet records it when no store_challenge ran during the call
Return(t, ret, found) ==
    /\ pc' = [pc EXCEPT ![t] = "idle"]
    /\ result' = [result EXCEPT ![t] = ret]
    /\ data' = [data EXCEPT ![t] = NoEntry]
    /\ sinceGet' = IF undisturbed[t] THEN found ELSE sinceGet

\* a request thread calls store_challenge(user_id, <fresh challenge>); the dict
\* assignment is one step
StoreCall ==
    /\ nextChal < MaxStores
    /\ nextChal' = nextChal + 1
    /\ challenges' = store_challenge(challenges, StoreUid, NewChallenge,
                                     "registration", DefaultTTL, now)
    /\ sinceGet' = ""
    /\ undisturbed' = [t \in Threads |-> undisturbed[t] /\ pc[t] = "idle"]
    /\ UNCHANGED <<now, ticks, routevars, sweepvars, txn, utilvars, pc, data, result, began, returned,
                   twice, wrongDelete>>

\* thread t enters get_challenge(user_id)
GetCall(t) ==
    /\ pc[t] = "idle"
    /\ pc' = [pc EXCEPT ![t] = "L73"]
    /\ began' = [began EXCEPT ![t] = sinceGet]
    /\ undisturbed' = [undisturbed EXCEPT ![t] = TRUE]
    /\ result' = [result EXCEPT ![t] = None]
    /\ UNCHANGED <<challenges, now, ticks, nextChal, routevars, sweepvars, txn, utilvars, data, sinceGet,
                   returned, twice, wrongDelete>>

\* if key not in challenges: return None
GetCheck(t) ==
    /\ pc[t] = "L73"
    /\ IF StoreKey \notin DOMAIN challenges
       THEN Return(t, None, "absent")
       ELSE /\ pc' = [pc EXCEPT ![t] = "L76"]
            /\ UNCHANGED <<result, data, sinceGet>>
    /\ UNCHANGED <<challenges, now, ticks, nextChal, routevars, sweepvars, txn, utilvars, began,
                   undisturbed, returned, twice, wrongDelete>>

\* data = challenges[key]   (KeyError: the except clause returns None)
GetRead(t) ==
    /\ pc[t] = "L76"
    /\ IF StoreKey \notin DOMAIN challenges
       THEN Return(t, None, "keyerror")
       ELSE /\ data' = [data EXCEPT ![t] = challenges[StoreKey]]
            /\ pc' = [pc EXCEPT ![t] = "L79"]
            /\ UNCHANGED <<result, sinceGet>>
    /\ UNCHANGED <<challenges, now, ticks, nextChal, routevars, sweepvars, txn, utilvars, began,
                   undisturbed, returned, twice, wrongDelete>>

\* if time.time() > data.get('expires', 0):
GetExpiry(t) ==
    /\ pc[t] = "L79"
    /\ pc' = [pc EXCEPT ![t] = IF Expired(now, data[t].expires) THEN "L80" ELSE "L84"]
    /\ UNCHANGED <<challenges, now, ticks, nextChal, routevars, sweepvars, txn, utilvars, data, result,
                   began, undisturbed, sinceGet, returned, twice, wrongDelete>>

\* del challenges[key]; return None   (KeyError: the except clause returns None)
GetDeleteExpired(t) ==
    /\ pc[t] = "L80"
    /\ IF StoreKey \notin DOMAIN challenges
       THEN /\ Return(t, None, "keyerror")
            /\ UNCHANGED <<challenges, wrongDelete>>
       ELSE /\ challenges' = DeleteExpired(challenges, StoreKey)
            /\ wrongDelete' = (wrongDelete \/ challenges[StoreKey] # data[t])
            /\ Return(t, None, "expired")
    /\ UNCHANGED <<now, ticks, nextChal, routevars, sweepvars, txn, utilvars, began, undisturbed, returned,
                   twice>>

\* del challenges[key]   (KeyError: the except clause returns None)
GetDelete(t) ==
    /\ pc[t] = "L84"
    /\ IF StoreKey \notin DOMAIN challenges
       THEN /\ Return(t, None, "keyerror")
            /\ UNCHANGED <<challenges, wrongDelete>>
       ELSE /\ challenges' = DeleteLive(challenges, StoreKey)
            /\ wrongDelete' = (wrongDelete \/ challenges[StoreKey] # data[t])
            /\ pc' = [pc EXCEPT ![t] = "L86"]
            /\ UNCHANGED <<result, data, sinceGet>>
    /\ UNCHANGED <<now, ticks, nextChal, routevars, sweepvars, txn, utilvars, began, undisturbed, returned,
                   twice>>

\* return bytes.fromhex(challenge_hex)
GetReturn(t) ==
    /\ pc[t] = "L86"
    /\ Return(t, Decode(data[t]), "live")
    /\ returned' = returned \cup {Decode(data[t])}
    /\ twice' = (twice \/ Decode(data[t]) \in returned)
    /\ UNCHANGED <<challenges, now, ticks, nextChal, routevars, sweepvars, txn, utilvars, began,
                   undisturbed, wrongDelete>>

\* ------------------------------------------- the store and its sweep
\* the user_id arguments of the calls
SweepUids == {Uid("user", 1, <<>>), Uid("user", 2, <<>>)}

\* a call into the store: its name, its argument, what it returned, what the
\* same call returned on the store that is never swept, the store it found,
\* the time it ran at and the time of the latest sweep so far (-1: none)
Call(op, uid, ret, plain, before, at, swept) ==
    [op |-> op, uid |-> uid, ret |-> ret, plain |-> plain, before |-> before,
     at |-> at, swept |-> swept]

NoCall == Call("", Uid("", 0, <<>>), None, None, <<>>, 0, -1)

\* store_challenge(uid, <fresh challenge>)
ApiStore(uid) ==
    /\ nextChal < MaxStores
    /\ nextChal' = nextChal + 1
    /\ challenges' = store_challenge(challenges, uid, NewChallenge,
                                     "registration", DefaultTTL, now)
    /\ shadow' = store_challenge(shadow, uid, NewChallenge, "registration",
                                 DefaultTTL, now)
    /\ api' = Call("store_challenge", uid, None, None, challenges, now,
                   api.swept)
    /\ UNCHANGED <<now, ticks, routevars, storevars, txn, utilvars>>

\* get_challenge(uid)
ApiGet(uid) ==
    /\ challenges' = get_challenge_store(challenges, uid, "registration", now)
    /\ shadow' = get_challenge_store(shadow, uid, "registration", now)
    /\ api' = Call("get_challenge", uid,
                   get_challenge(challenges, uid, "registration", now),
                   get_challenge(shadow, uid, "registration", now),
                   challenges, now, api.swept)
    /\ UNCHANGED <<now, ticks, nextChal, routevars, storevars, txn, utilvars>>

\* cleanup_expired_challenges()
ApiSweep ==
    /\ challenges' = cleanup_expired_challenges_store(challenges, now)
    /\ api' = Call("cleanup_expired_challenges", Uid("", 0, <<>>),
                   cleanup_expired_challenges(challenges, now), None,
                   challenges, now, now)
    /\ UNCHANGED <<now, ticks, nextChal, shadow, routevars, storevars, txn, utilvars>>

\* ------------------------------------------------------- the rate limiter
\* defaults of check_rate_limit(key, max_attempts=5, window_seconds=300)
DefaultMaxAttempts == 5

DefaultWindow == 300

\* the keys the limiter is called with
RateKeys == {"login", "transfer"}

\* the max_attempts argument the callers of a key pass: the default for
\* "login", 2 for "transfer"
max_attempts(key) == IF key = "login" THEN DefaultMaxAttempts ELSE 2

\* _rate_limit_data[key] after the `if key not in _rate_limit_data` block
RateEntry(rld, key, t) ==
    IF key \in DOMAIN rld THEN rld[key] ELSE [attempts |-> 0, window_start |-> t]

\* the test that resets the window: current_time - window_start > window_seconds
WindowPassed(entry, window_seconds, t) == t - entry.window_start > window_seconds

\* data after the "reset if window has passed" block
RateWindow(entry, window_seconds, t) ==
    IF WindowPassed(entry, window_seconds, t)
    THEN [attempts |-> 0, window_start |-> t]
    ELSE entry

\* the limit check: data['attempts'] >= max_attempts
LimitReached_above_mutant(entry, limit) == entry.attempts > limit

LimitReached(entry, limit) == entry.attempts >= limit

\* _rate_limit_data after check_rate_limit(key, limit, window_seconds) at time t
check_rate_limit_data(rld, key, limit, window_seconds, t) ==
    LET entry == RateWindow(RateEntry(rld, key, t), window_seconds, t) IN
    DictSet(rld, key,
            IF LimitReached(entry, limit) THEN entry
            ELSE [entry EXCEPT !.attempts = @ + 1])

\* what check_rate_limit(key, limit, window_seconds) returns at time t:
\* (is_allowed, attempts_remaining, seconds_until_reset)
check_rate_limit(rld, key, limit, window_seconds, t) ==
    LET entry == RateWindow(RateEntry(rld, key, t), window_seconds, t)
        seconds == window_seconds - (t - entry.window_start)
    IN  IF LimitReached(entry, limit) THEN <<FALSE, 0, seconds>>
        ELSE <<TRUE, limit - (entry.attempts + 1), seconds>>

\* _rate_limit_data after reset_rate_limit(key)
reset_rate_limit(rld, key) == IF key \in DOMAIN rld THEN DictDel(rld, key) ELSE rld

\* a call into the limiter: its name and key, what it returned, the data it
\* found, the time it ran at, and the call before it
RateCall(op, key, ret, before, at, prev) ==
    [op |-> op, key |-> key, ret |-> ret, before |-> before, at |-> at,
     prev |-> prev]

NoRateCall == RateCall("", "", <<FALSE, 0, 0>>, <<>>, 0, <<"", "">>)

\* check_rate_limit(key, max_attempts(key))
CheckRateLimit(key) ==
    /\ rate_limit_data' = check_rate_limit_data(rate_limit_data, key,
                              max_attempts(key), DefaultWindow, now)
    /\ rate' = RateCall("check_rate_limit", key,
                        check_rate_limit(rate_limit_data, key, max_attempts(key),
                                         DefaultWindow, now),
                        rate_limit_data, now, <<rate.op, rate.key>>)
    /\ UNCHANGED <<challenges, now, ticks, nextChal, routevars, storevars,
                   sweepvars, txn, stepped>>

\* reset_rate_limit(key)
ResetRateLimit(key) ==
    /\ rate_limit_data' = reset_rate_limit(rate_limit_data, key)
    /\ rate' = RateCall("reset_rate_limit", key, <<FALSE, 0, 0>>,
                        rate_limit_data, now, <<rate.op, rate.key>>)
    /\ UNCHANGED <<challenges, now, ticks, nextChal, routevars, storevars,
                   sweepvars, txn, stepped>>

\* ------------------------------------------------------ step-up decorator
\* no complete_step_up_auth call so far
NoStepUp == [at |-> -1, duration_minutes |-> 0]

\* complete_step_up_auth(duration_minutes: int = 5)
DefaultStepUpMinutes == 5

\* the durations complete_step_up_auth is called with
StepUpDurations == {0, DefaultStepUpMinutes, 2 * DefaultStepUpMinutes}

\* the user ids create_session is called with
SessionUserIds == {u.id : u \in SeedUsers}

\* timedelta(minutes=m), in seconds
Minutes(m) == m * 60

\* datetime.isoformat() and datetime.fromisoformat(): the text of an instant
\* and the instant of a text (None is the text of no instant)
isoformat(t) == <<t>>
fromisoformat(text) == text[1]

\* the session_data of create_session
session_data(user_id, credential_id, t) ==
    [user_id |-> user_id, credential_id |-> credential_id,
     authenticated_at |-> isoformat(t), last_activity |-> isoformat(t),
     step_up_verified |-> FALSE, step_up_expires |-> None]

\* session.get('user', {}).get('step_up_expires')
step_up_expires(sess) ==
    IF sess.user = NoState THEN None ELSE sess.user.step_up_expires

StepUpLive_inclusive_mutant(expires, t) ==
    expires # None /\ t <= fromisoformat(expires)

\* if step_up_expires: ... if datetime.utcnow() < expires
StepUpLive(expires, t) ==
    expires # None /\ t < fromisoformat(expires)

\* the session after complete_step_up_auth: untouched unless it holds 'user'
StepUpSession(sess, duration_minutes, t) ==
    IF sess.user = NoState THEN sess
    ELSE [sess EXCEPT !.user.step_up_verified = TRUE,
                      !.user.step_up_expires =
                          isoformat(t + Minutes(duration_minutes))]

\* a request whose handler calls create_session(user_id)
create_session(s, user_id) ==
    /\ session' = [session EXCEPT ![s].user = session_data(user_id, "", now),
                                  ![s].authenticated = TRUE]
    /\ last' = Reply("create_session", s, 200, "")
    /\ UNCHANGED <<challenges, now, ticks, nextChal, dbvars, attempted, tried,
                   storevars, sweepvars, txn, utilvars>>

\* a request whose handler calls complete_step_up_auth(duration_minutes)
complete_step_up_auth(s, duration_minutes) ==
    /\ session' = [session EXCEPT
                      ![s] = StepUpSession(session[s], duration_minutes, now)]
    /\ stepped' = [stepped EXCEPT
                      ![s] = [at |-> now, duration_minutes |-> duration_minutes]]
    /\ last' = Reply("complete_step_up_auth", s, 200, "")
    /\ UNCHANGED <<challenges, now, ticks, nextChal, dbvars, attempted, tried,
                   storevars, sweepvars, txn, rate_limit_data, rate>>

\* a request to a function f decorated with require_step_up_auth: status 200
\* stands for "f ran", 302 for a redirect to the endpoint in err
require_step_up_auth(s) ==
    /\ IF ~session[s].authenticated
       THEN /\ last' = Reply("guarded", s, 302, "main.login")
            /\ UNCHANGED session
       ELSE IF StepUpLive(step_up_expires(session[s]), now)
       THEN /\ last' = Reply("guarded", s, 200, "")
            /\ UNCHANGED session
       ELSE /\ session' = [session EXCEPT ![s].step_up_required = TRUE,
                                          ![s].step_up_redirect = "guarded"]
            /\ last' = Reply("guarded", s, 302, "wallet.step_up_auth")
    /\ UNCHANGED <<challenges, now, ticks, nextChal, dbvars, attempted, tried,
                   storevars, sweepvars, txn, utilvars>>

\* --------------------------------------------------------- specifications
Init ==
    /\ challenges = <<>>
    /\ now = 0
    /\ ticks = 0
    /\ nextChal = 0
    /\ users = SeedUsers
    /\ credentials = SeedCredentials
    /\ wallets = SeedWallets
    /\ transactions = SeedTransactions
    /\ session = [s \in Sessions |-> EmptySession]
    /\ last = NoReply
    /\ attempted = [s \in Sessions |-> FALSE]
    /\ tried = [s \in Sessions |-> FALSE]
    /\ pc = [t \in Threads |-> "idle"]
    /\ data = [t \in Threads |-> NoEntry]
    /\ result = [t \in Threads |-> None]
    /\ began = [t \in Threads |-> ""]
    /\ undisturbed = [t \in Threads |-> TRUE]
    /\ sinceGet = ""
    /\ returned = {}
    /\ twice = FALSE
    /\ wrongDelete = FALSE
    /\ shadow = <<>>
    /\ api = NoCall
    /\ txn = [s \in Sessions |-> NoTxn]
    /\ rate_limit_data = <<>>
    /\ rate = NoRateCall
    /\ stepped = [s \in Sessions |-> NoStepUp]

\* The state in which alice's only credential row has is_active = False, so
\* that no query finds it, and the session file of s1 is one in which she had
\* logged in before: the rows and the session files outlive the process.
InitRevoked ==
    /\ challenges = <<>>
    /\ now = 0
    /\ ticks = 0
    /\ nextChal = 0
    /\ users = SeedUsers
    /\ credentials = {c \in SeedCredentials : c.user_id # 1}
    /\ wallets = SeedWallets
    /\ transactions = SeedTransactions
    /\ session = [s \in Sessions |->
                     IF s = "s1"
                     THEN [EmptySession EXCEPT !.user_id = 1, !.email = "alice",
                                               !.authenticated = TRUE]
                     ELSE EmptySession]
    /\ last = NoReply
    /\ attempted = [s \in Sessions |-> FALSE]
    /\ tried = [s \in Sessions |-> FALSE]
    /\ pc = [t \in Threads |-> "idle"]
    /\ data = [t \in Threads |-> NoEntry]
    /\ result = [t \in Threads |-> None]
    /\ began = [t \in Threads |-> ""]
    /\ undisturbed = [t \in Threads |-> TRUE]
    /\ sinceGet = ""
    /\ returned = {}
    /\ twice = FALSE
    /\ wrongDelete = FALSE
    /\ shadow = <<>>
    /\ api = NoCall
    /\ txn = [s \in Sessions |-> NoTxn]
    /\ rate_limit_data = <<>>
    /\ rate = NoRateCall
    /\ stepped = [s \in Sessions |-> NoStepUp]

\* The state in which alice is logged in in both sessions and her wallet
\* holds 1.00: two of her devices, each with a session file of an earlier login.
InitRace ==
    /\ challenges = <<>>
    /\ now = 0
    /\ ticks = 0
    /\ nextChal = 0
    /\ users = SeedUsers
    /\ credentials = SeedCredentials
    /\ wallets = [SeedWallets EXCEPT ![1].balance = MinAmount * Pence]
    /\ transactions = [SeedTransactions EXCEPT ![1].amount = MinAmount * Pence]
    /\ session = [s \in Sessions |->
                     [EmptySession EXCEPT !.user_id = 1, !.email = "alice",
                                          !.authenticated = TRUE]]
    /\ last = NoReply
    /\ attempted = [s \in Sessions |-> FALSE]
    /\ tried = [s \in Sessions |-> FALSE]
    /\ pc = [t \in Threads |-> "idle"]
    /\ data = [t \in Threads |-> NoEntry]
    /\ result = [t \in Threads |-> None]
    /\ began = [t \in Threads |-> ""]
    /\ undisturbed = [t \in Threads |-> TRUE]
    /\ sinceGet = ""
    /\ returned = {}
    /\ twice = FALSE
    /\ wrongDelete = FALSE
    /\ shadow = <<>>
    /\ api = NoCall
    /\ txn = [s \in Sessions |-> NoTxn]
    /\ rate_limit_data = <<>>
    /\ rate = NoRateCall
    /\ stepped = [s \in Sessions |-> NoStepUp]

\* whether the completion route of session s gets as far as reading the body
ReadsBody(s, entry, gated) ==
    /\ gated => Gate(s) = ""
    /\ session[s][entry] # NoState
    /\ ~Falsy(get_challenge(challenges,
                            IF entry = "registration_state"
                            THEN session[s][entry].temp_user_id
                            ELSE IF entry = "auth_state"
                            THEN Uid("user", session[s][entry].user_id, <<>>)
                            ELSE session[s][entry].transaction_id,
                            "registration", now))

\* The request bodies to try.  A request that fails a check gets the same
\* response whatever the fields are that the route reads after that check, so
\* one body stands for all of them: one body for a route that returns before
\* it reads the body, one body for each rawId that names no credential of the
\* user, and every shape and every challenge for a rawId that names one.
Assertions(s, entry, gated) ==
    IF ReadsBody(s, entry, gated)
    THEN LET user_id == IF entry = "auth_state" THEN session[s][entry].user_id
                        ELSE session[s].user_id
             own == {c \in CredIds : FindCredential(c, user_id) # {}}
         IN  {Assertion(GoodShape, c, Challenge(0), 5) : c \in CredIds \ own}
             \cup UNION {{Assertion(sh, c, Challenge(n), k) :
                             c \in own, n \in 0..nextChal, k \in CountersFor(sh)} :
                         sh \in Shapes}
    ELSE {Assertion(GoodShape, "k1", Challenge(0), 5)}

\* the attestations to try: an attestation carries no assertion signature, and
\* its credential id is read only when every check has passed
Attestations(s) ==
    IF ReadsBody(s, "registration_state", FALSE)
    THEN UNION {{Attestation(sh, c, Challenge(n), k) :
                    c \in CredIdsFor(sh), n \in 0..nextChal, k \in RegCounters} :
                sh \in {x \in Shapes : x.sig}}
    ELSE {Attestation(GoodShape, "k3", Challenge(0), 0)}

\* the fields of a wallet begin request are read after login_required
Gated(s, inputs) ==
    IF Gate(s) = "" THEN inputs ELSE {CHOOSE x \in inputs : TRUE}

\* the bodies of transfer_begin to try: the amount is read after the
\* recipient has passed its checks, so one amount stands for all of them
\* with a recipient that fails
Transfers(s) ==
    IF Gate(s) # "" THEN {<<"", AmountMissing>>}
    ELSE LET user == CHOOSE u \in get_current_user(s) : TRUE IN
         {<<e, m>> \in (Emails \cup {""}) \X Amounts :
             RecipientError(user, e) = "" \/ m = AmountMissing}

\* the response of the request in service is sent
Deliver ==
    /\ last # NoReply
    /\ last' = NoReply
    /\ UNCHANGED <<challenges, now, ticks, nextChal, dbvars, session, attempted,
                   tried, storevars, sweepvars, txn, utilvars>>

\* every request is served in one step, one request after the other
Next ==
    \/ Ready /\ \E s \in Sessions, e \in Emails \cup {""} : register_begin(s, e)
    \/ Ready /\ \E s \in Sessions :
          \E a \in Attestations(s) : register_complete(s, a)
    \/ Ready /\ \E s \in Sessions, e \in Emails \cup {""} : login_begin(s, e)
    \/ Ready /\ \E s \in Sessions :
          \E a \in Assertions(s, "auth_state", FALSE) : login_complete(s, a)
    \/ Ready /\ \E s \in Sessions : logout(s)
    \/ Ready /\ \E s \in Sessions :
          \E m \in Gated(s, Amounts) : deposit_begin(s, m)
    \/ Ready /\ \E s \in Sessions :
          \E a \in Assertions(s, "pending_deposit", TRUE) : deposit_complete(s, a)
    \/ Ready /\ \E s \in Sessions :
          \E x \in Transfers(s) : transfer_begin(s, x[1], x[2])
    \/ Ready /\ \E s \in Sessions :
          \E a \in Assertions(s, "pending_transfer", TRUE) : transfer_complete(s, a)
    \/ Ready /\ \E s \in Sessions : get_balance(s)
    \/ Ready /\ \E s \in Sessions : get_transactions(s)
    \/ Deliver
    \/ Ready /\ Tick

Spec == Init /\ [][Next]_vars

\* transfers of two sessions, the statements of their completions interleaved
NextRace ==
    \/ \E s \in Sessions :
          /\ txn[s] = NoTxn
          /\ \E x \in Transfers(s) : transfer_begin(s, x[1], x[2])
    \/ \E s \in Sessions :
          \E a \in Assertions(s, "pending_transfer", TRUE) : TransferLoad(s, a)
    \/ \E s \in Sessions : TransferCommit(s)

SpecRace == InitRace /\ [][NextRace]_vars

\* the amounts of the deposits to try in SpecSwitch: 1.00 and 2.00, and one amount
\* that is refused
SwitchAmounts ==
    {AmountMissing, AmountNumber(MinAmount * Pence),
     AmountNumber(2 * MinAmount * Pence)}

\* The requests that begin and complete a deposit or a transfer and those that
\* change the user of a session, served one after the other from the state in
\* which alice is logged in in both sessions.
NextSwitch ==
    \/ Ready /\ \E s \in Sessions, e \in Emails \cup {""} : login_begin(s, e)
    \/ Ready /\ \E s \in Sessions :
          \E a \in Assertions(s, "auth_state", FALSE) : login_complete(s, a)
    \/ Ready /\ \E s \in Sessions : logout(s)
    \/ Ready /\ \E s \in Sessions :
          \E m \in Gated(s, SwitchAmounts) : deposit_begin(s, m)
    \/ Ready /\ \E s \in Sessions :
          \E a \in Assertions(s, "pending_deposit", TRUE) : deposit_complete(s, a)
    \/ Ready /\ \E s \in Sessions :
          \E x \in Transfers(s) : transfer_begin(s, x[1], x[2])
    \/ Ready /\ \E s \in Sessions :
          \E a \in Assertions(s, "pending_transfer", TRUE) : transfer_complete(s, a)
    \/ Deliver

SpecSwitch == InitRace /\ [][NextSwitch]_vars

\* the same requests, served from the state with a revoked credential
SpecRevoked == InitRevoked /\ [][Next]_vars

\* threads interleave between the statements of get_challenge
NextStore ==
    \/ StoreCall
    \/ \E t \in Threads : GetCall(t)
    \/ \E t \in Threads : GetCheck(t)
    \/ \E t \in Threads : GetRead(t)
    \/ \E t \in Threads : GetExpiry(t)
    \/ \E t \in Threads : GetDeleteExpired(t)
    \/ \E t \in Threads : GetDelete(t)
    \/ \E t \in Threads : GetReturn(t)
    \/ Tick

SpecStore == Init /\ [][NextStore]_vars

\* calls into the store one after another, sweeps among them
NextSweep ==
    \/ \E uid \in SweepUids : ApiStore(uid)
    \/ \E uid \in SweepUids : ApiGet(uid)
    \/ ApiSweep
    \/ Tick

SpecSweep == Init /\ [][NextSweep]_vars

\* calls into the rate limiter, one after another
NextRate ==
    \/ \E key \in RateKeys : CheckRateLimit(key)
    \/ \E key \in RateKeys : ResetRateLimit(key)
    \/ Tick

SpecRate == Init /\ [][NextRate]_vars

\* requests of two logged-in sessions to handlers that use the step-up helpers
NextGuard ==
    \/ Ready /\ \E s \in Sessions, u \in SessionUserIds : create_session(s, u)
    \/ Ready /\ \E s \in Sessions, d \in StepUpDurations :
          complete_step_up_auth(s, d)
    \/ Ready /\ \E s \in Sessions : require_step_up_auth(s)
    \/ Ready /\ \E s \in Sessions : logout(s)
    \/ Deliver
    \/ Ready /\ Tick

SpecGuard == InitRace /\ [][NextGuard]_vars


\* ------------------------------------------------------------- properties
AssertionRoutes == {"login_complete", "deposit_complete", "transfer_complete"}

StepUpRoutes == {"deposit_complete", "transfer_complete"}

\* the session entry that holds the ceremony state of a completion route
Entry(op) ==
    CASE op = "register_complete" -> "registration_state"
      [] op = "login_complete" -> "auth_state"
      [] op = "deposit_complete" -> "pending_deposit"
      [] OTHER -> "pending_transfer"

\* the store holds no entry with challenge c
NotStored(st, c) == \A k \in DOMAIN st : st[k].challenge # hex(c)

\* C1: once login_complete has been called with a session's auth_state, no
\* later login_complete that uses the same auth_state succeeds.
C1_NoReuse ==
    (last.op = "login_complete" /\ last.reused) => last.status # 200

\* C2: under every interleaving of get_challenge and store_challenge calls on
\* one key, no challenge is returned to two callers and no call deletes an
\* entry other than the one it read.
C2_OneConsumer == ~twice /\ ~wrongDelete

\* C3: after a get_challenge call, whatever it returned, the key is absent
\* from the store, and a second get_challenge with no store_challenge in
\* between returns None.
C3_RetrieveAndDelete ==
    /\ sinceGet # "" => StoreKey \notin DOMAIN challenges
    /\ \A t \in Threads :
          (pc[t] = "idle" /\ undisturbed[t] /\ began[t] # "") => result[t] = None

\* a second call, begun after a call that returned the challenge, has returned
C3_Witness ==
    \E t \in Threads :
        pc[t] = "idle" /\ undisturbed[t] /\ began[t] = "live" /\ result[t] = None

\* C4: a login or step-up completion succeeds only if the challenge signed in
\* the client data is the challenge this completion took from the store.
C4_SignedIsConsumed ==
    (last.op \in AssertionRoutes /\ last.status = 200) => last.signed = last.consumed

\* C5: a valid assertion whose counter is not above the stored sign_count
\* (both nonzero) does not log the session in.
C5_CloneRejected ==
    ~(/\ last.op = "login_complete" /\ last.status = 200
      /\ last.stored # 0 /\ last.counter # 0
      /\ last.counter <= last.stored)

\* C6: after a successful assertion the credential's sign_count is the
\* counter the assertion reported.
C6_StoredIsReported ==
    (last.op \in AssertionRoutes /\ last.status = 200) =>
        \A c \in credentials :
            c.credential_id = last.rawId => c.sign_count = last.counter

\* C7: a completion that fails after looking up its challenge adds no row,
\* changes no balance and no sign_count, leaves every session's authenticated
\* flag as it was, and leaves the ceremony's challenge out of the store.
C7_NoPartialMutation ==
    [][(last'.lookup /\ last'.err # "") =>
          /\ UNCHANGED dbvars
          /\ \A s \in Sessions : session'[s].authenticated = session[s].authenticated
          /\ last'.key \notin DOMAIN challenges'
          /\ NotStored(challenges',
                       session[last'.sess][Entry(last'.op)].state.challenge)]_vars

\* a registration rolled back at the unique index of credential_id
C7_Witness ==
    last.op = "register_complete" /\ last.lookup /\ last.err = "integrity_credential"

\* C8: a deposit or transfer completion whose assertion lacks the
\* user-verified flag fails and leaves balances and transactions unchanged;
\* a login never fails for the lack of that flag.
C8_StepUpNeedsVerification ==
    [][/\ (last'.op \in StepUpRoutes /\ last'.lookup /\ ~last'.uv) =>
              /\ last'.status # 200
              /\ wallets' = wallets
              /\ transactions' = transactions
       /\ last'.op = "login_complete" => last'.err # "user_verification"]_vars

\* a deposit refused for the flag alone: every other check passed
C8_Witness ==
    /\ last.op = "deposit_complete" /\ last.err = "user_verification"
    /\ \E t \in Sessions : session[t].authenticated

\* C9: the ceremonies of deposit_begin and transfer_begin carry "required",
\* in the options returned and in the state kept in the session; those of
\* login_begin and register_begin carry "preferred".
C9_VerificationLevels ==
    /\ \A s \in Sessions :
          /\ session[s].pending_deposit # NoState =>
                session[s].pending_deposit.state.user_verification = "required"
          /\ session[s].pending_transfer # NoState =>
                session[s].pending_transfer.state.user_verification = "required"
          /\ session[s].auth_state # NoState =>
                session[s].auth_state.state.user_verification = "preferred"
          /\ session[s].registration_state # NoState =>
                session[s].registration_state.state.user_verification = "preferred"
    /\ last.status = 200 =>
          /\ last.op \in {"deposit_begin", "transfer_begin"} => last.options = "required"
          /\ last.op \in {"login_begin", "register_begin"} => last.options = "preferred"

\* a transfer ceremony has begun
C9_Witness ==
    /\ last.op = "transfer_begin" /\ last.status = 200
    /\ session[last.sess].pending_transfer # NoState

\* C10: a get_challenge after the entry's expiry returns a result that differs
\* from the result for a key that is not in the store (None).
C10_ExpiredDistinguishable ==
    [][\A t \in Threads :
          (pc[t] = "L80" /\ pc'[t] = "idle" /\ StoreKey \in DOMAIN challenges) =>
              result'[t] # None]_vars

\* C10, as the code has it: get_challenge takes the expired branch exactly
\* when the clock is past `expires` (with a TTL of 300, not at 300 but at
\* 301); it then returns None, the result for a key not in the store, and
\* deletes the entry, and a repeated get_challenge returns None as well.
C10_ExpiredIsNone ==
    [][\A t \in Threads :
          /\ (pc[t] = "L79" /\ pc'[t] = "L80") => now > data[t].expires
          /\ (pc[t] = "L79" /\ pc'[t] = "L84") => now <= data[t].expires
          /\ (pc[t] = "L80" /\ pc'[t] = "idle") =>
                /\ result'[t] = None
                /\ StoreKey \notin DOMAIN challenges'
          /\ (pc[t] # "idle" /\ pc'[t] = "idle" /\ undisturbed[t]
                /\ began[t] = "expired") => result'[t] = None]_vars

\* a call found the entry expired, and the call after it has returned
C10_Witness ==
    \E t \in Threads :
        pc[t] = "idle" /\ undisturbed[t] /\ began[t] = "expired" /\ result[t] = None


\* C11: a store_challenge for a key that already holds a challenge leaves one
\* entry under that key, with the new challenge, and changes no entry under
\* another key; what get_challenge returns is the challenge stored last.
C11_SecondStoreWins ==
    [][/\ nextChal' # nextChal =>
             \E k \in DOMAIN challenges' :
                 /\ challenges'[k] = [challenge |-> hex(Challenge(nextChal')),
                                      expires |-> now + DefaultTTL]
                 /\ DOMAIN challenges' = DOMAIN challenges \cup {k}
                 /\ \A j \in DOMAIN challenges \ {k} : challenges'[j] = challenges[j]
       /\ (last'.lookup /\ ~Falsy(last'.consumed)) =>
             /\ last'.key \in DOMAIN challenges
             /\ last'.consumed = fromhex(challenges[last'.key].challenge)]_vars

\* two login ceremonies were begun for one user, in two sessions, and the
\* completion got the challenge of the second
C11_Witness ==
    /\ last.op = "login_complete" /\ last.consumed = Challenge(2)
    /\ \E s \in Sessions :
          /\ session[s].auth_state # NoState
          /\ session[s].auth_state.state.challenge = Challenge(1)
          /\ ChallengeKey("registration", Uid("user", session[s].auth_state.user_id, <<>>))
                = last.key
          /\ ~attempted[s]

\* C12: once register_complete has been called for a registration ceremony,
\* every further register_complete for it fails and creates no user, no
\* credential and no wallet.
C12_RegisterOnce ==
    [][\A s \in Sessions :
          (last'.op = "register_complete" /\ last'.sess = s /\ tried[s]) =>
              /\ last'.status # 201
              /\ users' = users /\ credentials' = credentials /\ wallets' = wallets]_vars

\* a second register_complete with a good attestation, after a first one that
\* failed, found its challenge gone
C12_Witness ==
    /\ last.op = "register_complete" /\ last.lookup /\ last.err = "challenge_expired"
    /\ tried[last.sess] /\ now = 0


\* the reasons register_complete can fail for once it has its challenge
RegisterFailures ==
    {"type", "origin", "challenge", "rp_id_hash", "user_present",
     "user_verification", "credential_data", "integrity_email",
     "integrity_credential"}

\* C13: a registration response whose client data challenge does not match
\* the stored challenge gets a response that names the mismatch: its error
\* differs from the error of every other failed verification.
C13_MismatchKind ==
    (last.op = "register_complete" /\ last.err = "challenge") =>
        \A e \in RegisterFailures \ {"challenge"} :
            RegisterCompleteError("challenge") # RegisterCompleteError(e)

\* C13, as the code has it: a registration succeeds only with the challenge
\* that was stored for it; a response with another challenge is answered 500
\* "Registration verification failed", as every failed verification is, and
\* no user, credential or wallet is created.
C13_MismatchRejected ==
    [][last'.op = "register_complete" =>
          /\ last'.status = 201 => last'.signed = last'.consumed
          /\ last'.err = "challenge" =>
                /\ last'.status = 500
                /\ \A e \in RegisterFailures :
                      RegisterCompleteError(last'.err) = RegisterCompleteError(e)
                /\ users' = users /\ credentials' = credentials
                /\ wallets' = wallets]_vars

\* a registration response was refused for its challenge
C13_Witness ==
    last.op = "register_complete" /\ last.lookup /\ last.err = "challenge"


CompletionRoutes ==
    {"register_complete", "login_complete", "deposit_complete", "transfer_complete"}

\* C14: a completion in a session that holds no state from the matching begin
\* fails, consumes no challenge and changes no stored data.
C14_CompleteNeedsBegin ==
    [][\A s \in Sessions :
          (/\ last'.op \in CompletionRoutes /\ last'.sess = s
           /\ session[s][Entry(last'.op)] = NoState) =>
              /\ last'.status >= 400
              /\ ~last'.lookup
              /\ challenges' = challenges
              /\ UNCHANGED dbvars
              /\ session' = session]_vars

\* a logged-in session asked to complete a transfer it never began
C14_Witness ==
    /\ last.op = "transfer_complete" /\ last.err = "no_state"
    /\ session[last.sess].authenticated
    /\ challenges # <<>>


\* the store keys a completion route of session s would look up
CeremonyKeys(s) ==
    (IF session[s].registration_state = NoState THEN {}
     ELSE {ChallengeKey("registration", session[s].registration_state.temp_user_id)})
    \cup
    (IF session[s].auth_state = NoState THEN {}
     ELSE {ChallengeKey("registration",
                        Uid("user", session[s].auth_state.user_id, <<>>))})
    \cup
    (IF session[s].pending_deposit = NoState THEN {}
     ELSE {ChallengeKey("registration", session[s].pending_deposit.transaction_id)})
    \cup
    (IF session[s].pending_transfer = NoState THEN {}
     ELSE {ChallengeKey("registration", session[s].pending_transfer.transaction_id)})

\* C15: every challenge a begin route put into the store is removed again:
\* no entry is left that nothing can remove.  The routes never call
\* cleanup_expired_challenges, so an entry can be removed only by the
\* get_challenge of a completion, under a key that a session still holds.
C15_Removable ==
    \A k \in DOMAIN challenges : \E s \in Sessions : k \in CeremonyKeys(s)

\* C16: cleanup_expired_challenges removes exactly the entries whose expiry
\* is in the past, returns how many it removed, and leaves every entry that
\* has not expired as it was.
C16_SweepExact ==
    api.op = "cleanup_expired_challenges" =>
        /\ DOMAIN challenges =
               {k \in DOMAIN api.before : ~(api.before[k].expires < api.at)}
        /\ \A k \in DOMAIN challenges : challenges[k] = api.before[k]
        /\ api.ret = Cardinality(DOMAIN api.before \ DOMAIN challenges)

\* a sweep that removed one entry and kept another
C16_Witness ==
    /\ api.op = "cleanup_expired_challenges"
    /\ api.ret = 1
    /\ challenges # <<>>

\* C17: sweeps change the result of no get_challenge call: every call returns
\* what it returns on the store that was never swept, and the entries still
\* live are the same in both stores.
C17_SweepInvisible ==
    /\ api.op = "get_challenge" => api.ret = api.plain
    /\ \A k \in DOMAIN shadow :
           ~Expired(now, shadow[k].expires) =>
               k \in DOMAIN challenges /\ challenges[k] = shadow[k]
    /\ \A k \in DOMAIN challenges : k \in DOMAIN shadow

\* a challenge returned at its exact expiry instant, after a sweep that ran
\* at that same instant
C17_Witness ==
    /\ api.op = "get_challenge"
    /\ api.ret # None
    /\ api.before[ChallengeKey("registration", api.uid)].expires = api.at
    /\ api.swept = api.at

C19_UnknownCredential ==
    [][\A s \in Sessions :
          (/\ last'.op \in AssertionRoutes
           /\ last'.sess = s
           /\ last'.lookup
           /\ ~Falsy(last'.consumed)) =>
              LET user_id == IF last'.op = "login_complete"
                             THEN session[s].auth_state.user_id
                             ELSE session[s].user_id
              IN  (\A c \in credentials :
                      c.user_id = user_id => c.credential_id # last'.rawId) =>
                      /\ last'.err = "credential_not_found"
                      /\ last'.status = 401
                      /\ UNCHANGED dbvars
                      /\ session'[s].authenticated = session[s].authenticated
                      /\ session'[s].user_id = session[s].user_id]_vars

\* a deposit completion by alice that asserted bob's credential
C19_Witness ==
    /\ last.op = "deposit_complete"
    /\ last.err = "credential_not_found"
    /\ last.rawId = "k2"
    /\ session[last.sess].user_id = 1
    /\ ~Falsy(last.consumed)

\* the failures of a begin route that come from the fields of the request
InputErrors ==
    {"missing", "amount", "amount_missing", "amount_invalid",
     "recipient_missing", "self_transfer", "recipient_not_found",
     "wallet_not_found", "insufficient_balance"}

\* the step serves a begin request of session s for the user user_id: a
\* login_begin with that user's email, or a deposit_begin or transfer_begin
\* in a session logged in as that user
BeginFor(s, user_id) ==
    \/ /\ last'.op = "login_begin"
       /\ last'.sess = s
       /\ \E e \in Emails :
              /\ \E u \in UserByEmail(e) : u.id = user_id
              /\ login_begin(s, e)
    \/ /\ last'.op \in {"deposit_begin", "transfer_begin"}
       /\ last'.sess = s
       /\ Gate(s) = ""
       /\ session[s].user_id = user_id

\* C20: login_begin, deposit_begin and transfer_begin for a user with no
\* active credentials fail, with 401 and the no-credentials error when the
\* request is otherwise well formed; they store no challenge and write no
\* ceremony state into the session.
C20_NoCredentials ==
    [][\A s \in Sessions : \A u \in users :
          (/\ \A c \in credentials : c.user_id # u.id
           /\ BeginFor(s, u.id)) =>
              /\ last'.status >= 400
              /\ last'.err \notin InputErrors =>
                     last'.err = "no_credentials" /\ last'.status = 401
              /\ challenges' = challenges
              /\ nextChal' = nextChal
              /\ session' = session]_vars

\* a transfer that alice, who has no active credential, began from a session
\* holding the state of a ceremony somebody else had begun
C20_Witness ==
    /\ last.op = "transfer_begin"
    /\ last.err = "no_credentials"
    /\ session[last.sess].user_id = 1
    /\ challenges # <<>>

\* C21: a registration, login or step-up ceremony completes only with a
\* response whose client data carries exactly the configured origin RP_ORIGIN.
C21_ExactOrigin ==
    (last.op \in CompletionRoutes /\ last.status \in {200, 201}) =>
        last.origin = RP_ORIGIN

\* the routes behind login_required
WalletRoutes ==
    {"get_balance", "get_transactions", "deposit_begin", "deposit_complete",
     "transfer_begin", "transfer_complete"}

\* C22: every wallet route called in a session that is not authenticated
\* answers 401 and changes no challenge, no session and no stored row.
C22_WalletNeedsLogin ==
    [][\A s \in Sessions :
          (/\ last'.op \in WalletRoutes
           /\ last'.sess = s
           /\ ~session[s].authenticated) =>
              /\ last'.status = 401
              /\ challenges' = challenges
              /\ nextChal' = nextChal
              /\ session' = session
              /\ UNCHANGED dbvars]_vars

\* a transfer completion refused in a session that is not logged in, while
\* another session is logged in and a challenge is in the store
C22_Witness ==
    /\ last.op = "transfer_complete"
    /\ last.status = 401
    /\ ~session[last.sess].authenticated
    /\ \E s \in Sessions : session[s].authenticated
    /\ challenges # <<>>

\* C23: logout leaves the session with no authenticated flag and no ceremony
\* state; from then on the flag is set again only by a login_complete of that
\* session that succeeds, and until then every wallet route is refused.
C23_LogoutClears ==
    [][\A s \in Sessions :
          /\ (last'.op = "logout" /\ last'.sess = s) =>
                 /\ last'.status = 200
                 /\ session'[s] = EmptySession
          /\ (~session[s].authenticated /\ session'[s].authenticated) =>
                 /\ last'.op = "login_complete"
                 /\ last'.sess = s
                 /\ last'.status = 200
          /\ (last'.op \in WalletRoutes /\ last'.sess = s
                 /\ ~session[s].authenticated) =>
                 /\ last'.status = 401
                 /\ ~session'[s].authenticated]_vars

\* alice has logged out of a session in which she had begun a deposit: its
\* challenge is still stored and no session holds its transaction id
C23_Witness ==
    /\ last.op = "logout"
    /\ last.email = "alice"
    /\ session[last.sess] = EmptySession
    /\ \E k \in DOMAIN challenges :
           \A s \in Sessions : k \notin CeremonyKeys(s)

\* C24: at most one user exists per email: register_begin for an email that
\* has a user answers 409 and issues no challenge, and a register_complete
\* creates a user only for an email that has none, so of two ceremonies begun
\* for one new email at most one creates a user.
C24_OneUserPerEmail ==
    [][/\ \A u, v \in users' : u.email = v.email => u = v
       /\ (last'.op = "register_begin"
              /\ \E u \in users : u.email = last'.email) =>
              /\ last'.status = 409
              /\ challenges' = challenges
              /\ nextChal' = nextChal
              /\ session' = session
       /\ \A s \in Sessions :
              (/\ last'.op = "register_complete"
               /\ last'.sess = s
               /\ session[s].registration_state # NoState) =>
                  IF \E u \in users :
                         u.email = session[s].registration_state.email
                  THEN last'.status # 201 /\ users' = users
                  ELSE last'.status = 201 =>
                           Cardinality(users') = Cardinality(users) + 1]_vars

\* the second of two completions of ceremonies begun for the same new email
C24_Witness ==
    /\ last.op = "register_complete"
    /\ last.err = "integrity_email"
    /\ Cardinality(users) = Cardinality(SeedUsers) + 1

\* C25: registration is all or nothing: every user has exactly one wallet and
\* at least one credential, every wallet and credential belongs to a user,
\* and the wallet of a user that register_complete has just created holds 0.
C25_AllOrNothing ==
    /\ \A u \in users :
           /\ Cardinality({i \in DOMAIN wallets : wallets[i].user_id = u.id}) = 1
           /\ \E c \in credentials : c.user_id = u.id
    /\ \A i \in DOMAIN wallets : \E u \in users : u.id = wallets[i].user_id
    /\ \A c \in credentials : \E u \in users : u.id = c.user_id
    /\ (last.op = "register_complete" /\ last.status = 201) =>
           \A u \in users :
               u.id = Cardinality(users) =>
                   /\ wallets[WalletOf(u.id)].balance = 0
                   /\ \E c \in credentials :
                          c.user_id = u.id /\ c.credential_id = last.rawId
    /\ (last.op = "register_complete" /\ last.status # 201) =>
           Cardinality(users) = Len(wallets)

\* a registration that has just created carol, her credential and her wallet
C25_Witness ==
    /\ last.op = "register_complete"
    /\ last.status = 201
    /\ \E u \in users : u.email = "carol" /\ WalletOf(u.id) = Len(wallets)

\* C26: credential_id is unique over all users: a register_complete whose
\* attested credential id is stored already, for whatever user, fails and
\* creates no user, credential or wallet.
C26_CredentialIdUnique ==
    [][/\ \A c, d \in credentials' :
              c.credential_id = d.credential_id => c.user_id = d.user_id
       /\ (/\ last'.op = "register_complete"
           /\ \E c \in credentials : c.credential_id = last'.rawId) =>
              /\ last'.status = 500
              /\ users' = users
              /\ credentials' = credentials
              /\ wallets' = wallets]_vars

\* a registration for a new email refused for attesting bob's credential id
C26_Witness ==
    /\ last.op = "register_complete"
    /\ last.err = "integrity_credential"
    /\ last.rawId = "k2"
    /\ ~Falsy(last.consumed)

\* an amount no deposit may have: none, not a number, or a number that is
\* not from 1.00 to 10000.00
BadDeposit(m) ==
    \/ m.kind # "number"
    \/ m.pence < MinAmount * Pence
    \/ m.pence > MaxDeposit * Pence

\* C27: deposit_begin with a missing, non-numeric, zero, negative, below-1 or
\* above-10000 amount answers 400, issues no challenge and stores no
\* pending_deposit; every pending_deposit holds an amount from 1 to 10000,
\* and that is the amount a deposit_complete credits.
C27_BadAmountRefused ==
    [][\A s \in Sessions :
          /\ (last'.op = "deposit_begin" /\ last'.sess = s /\ Gate(s) = "") =>
                 \/ /\ last'.status = 400
                    /\ challenges' = challenges
                    /\ nextChal' = nextChal
                    /\ session' = session
                 \/ \A m \in Amounts : BadDeposit(m) => ~deposit_begin(s, m)
          /\ session'[s].pending_deposit # NoState =>
                 ~BadDeposit(AmountNumber(session'[s].pending_deposit.amount))
          /\ (last'.op = "deposit_complete" /\ last'.sess = s
                 /\ last'.status = 200) =>
                 \E i \in DOMAIN wallets :
                     /\ wallets' = [wallets EXCEPT ![i].balance =
                                       @ + session[s].pending_deposit.amount]
                     /\ ~BadDeposit(AmountNumber(wallets'[i].balance
                                                   - wallets[i].balance))]_vars

\* a deposit_begin with an amount that is not a number, refused in a session
\* that holds a pending deposit from an earlier begin
C27_Witness ==
    /\ last.op = "deposit_begin"
    /\ last.err = "amount_invalid"
    /\ session[last.sess].pending_deposit # NoState

\* a recipient no transfer of session s may have: none, the email of no
\* active user, or the email of the user logged in
BadRecipient(s, e) ==
    \/ e = ""
    \/ ~ \E u \in users : u.email = e
    \/ \E u \in users : u.email = e /\ u.id = session[s].user_id

\* C28: transfer_begin whose recipient is missing, is no active user or is
\* the sender answers 400 or 404, issues no challenge and stores no
\* pending_transfer; no pending_transfer names the session's own user, and a
\* completed transfer debits one wallet and credits another.
C28_BadRecipientRefused ==
    [][\A s \in Sessions :
          /\ (last'.op = "transfer_begin" /\ last'.sess = s /\ Gate(s) = "") =>
                 \/ /\ last'.status \in {400, 404}
                    /\ challenges' = challenges
                    /\ nextChal' = nextChal
                    /\ session' = session
                 \/ \A e \in Emails \cup {""}, m \in Amounts :
                        BadRecipient(s, e) => ~transfer_begin(s, e, m)
          /\ session'[s].pending_transfer # NoState =>
                 session'[s].pending_transfer.recipient_id # session'[s].user_id
          /\ (last'.op = "transfer_complete" /\ last'.sess = s
                 /\ last'.status = 200) =>
                 \E i, j \in DOMAIN wallets :
                     /\ i # j
                     /\ wallets[i].user_id = session[s].user_id
                     /\ wallets'[i].balance < wallets[i].balance
                     /\ wallets'[j].balance > wallets[j].balance
                     /\ transactions'[Len(transactions') - 1].wallet_id = i
                     /\ transactions'[Len(transactions')].wallet_id = j]_vars

\* alice's transfer to herself, refused in a session that holds a pending
\* transfer from an earlier begin
C28_Witness ==
    /\ last.op = "transfer_begin"
    /\ last.err = "self_transfer"
    /\ session[last.sess].pending_transfer # NoState

\* C29: no wallet balance is ever negative, also when transfer completions
\* of one sender in different sessions interleave between their balance check
\* and their balance update.
C29_NoNegativeBalance ==
    \A i \in DOMAIN wallets : wallets[i].balance >= 0

\* two transfers of alice's whole balance have both been completed, the
\* second having checked the balance before the first one committed
C29_Witness ==
    /\ Len(transactions) = Len(SeedTransactions) + 4
    /\ wallets[1].balance = 0
    /\ \A s \in Sessions : txn[s] = NoTxn

\* the assertion a passes verify_step_up_auth against the pending state of
\* session s under entry, for a credential of the user logged in
StepUpVerified(s, entry, a) ==
    /\ session[s].authenticated
    /\ \E c \in credentials :
           c.credential_id = a.rawId /\ c.user_id = session[s].user_id
    /\ verify_step_up_auth(session[s][entry].state, a) = "ok"

\* C30: a wallet balance changes only in a deposit_complete or
\* transfer_complete that answers 200, and such a request carries an assertion
\* that passed verify_step_up_auth for a credential of the logged-in user;
\* every Transaction row created is COMPLETED and webauthn_verified.
C30_BalanceNeedsStepUp ==
    [][/\ (\E i \in DOMAIN wallets : wallets'[i] # wallets[i]) =>
              (last'.op \in StepUpRoutes /\ last'.status = 200)
       /\ \A s \in Sessions :
              (/\ last'.op \in StepUpRoutes
               /\ last'.sess = s
               /\ last'.lookup) =>
                  \/ /\ last'.status # 200
                     /\ wallets' = wallets
                     /\ transactions' = transactions
                  \/ \A a \in Assertions(s, Entry(last'.op), TRUE) :
                         ~StepUpVerified(s, Entry(last'.op), a) =>
                             ~ IF last'.op = "deposit_complete"
                               THEN deposit_complete(s, a)
                               ELSE transfer_complete(s, a)
       /\ Len(transactions') >= Len(transactions)
       /\ \A i \in DOMAIN transactions' :
              IF i \in DOMAIN transactions
              THEN transactions'[i] = transactions[i]
              ELSE /\ transactions'[i].status = "COMPLETED"
                   /\ transactions'[i].webauthn_verified]_vars

\* a transfer completed: two rows written and two balances changed
C30_Witness ==
    /\ last.op = "transfer_complete"
    /\ last.status = 200
    /\ Len(transactions) = Len(SeedTransactions) + 2
    /\ wallets[1].balance < SeedWallets[1].balance

\* what a Transaction row adds to the balance of its wallet
Signed(row) ==
    IF row.transaction_type = "TRANSFER_OUT" THEN 0 - row.amount ELSE row.amount

RECURSIVE Ledger(_, _)
\* the sum of the first n Transaction rows of wallet i: DEPOSIT and
\* TRANSFER_IN amounts less TRANSFER_OUT amounts
Ledger(i, n) ==
    IF n = 0 THEN 0
    ELSE Ledger(i, n - 1) +
         (IF transactions[n].wallet_id = i THEN Signed(transactions[n]) ELSE 0)

\* C31: once every deposit and transfer that was begun to complete has
\* completed, each wallet's balance is the sum of its DEPOSIT and TRANSFER_IN
\* rows less its TRANSFER_OUT rows.
C31_LedgerConsistent ==
    (\A s \in Sessions : txn[s] = NoTxn) =>
        \A i \in DOMAIN wallets :
            wallets[i].balance = Ledger(i, Len(transactions))


\* the session entries that hold a pending deposit or transfer
PendingEntries == {"pending_deposit", "pending_transfer"}

\* C32: a pending deposit or transfer is held only by a session logged in as
\* the user who began it; a step that changes the user of a session leaves it
\* without pending state; a completed deposit credits, and a completed
\* transfer debits, the wallet of the user who began it and no other.
C32_SameUserCompletes ==
    [][\A s \in Sessions :
          /\ \A entry \in PendingEntries :
                 session'[s][entry] # NoState =>
                     /\ session'[s].authenticated
                     /\ session'[s][entry].transaction_id.a = session'[s].user_id
          /\ session'[s].user_id # session[s].user_id =>
                 \A entry \in PendingEntries : session'[s][entry] = NoState
          /\ (last'.op = "deposit_complete" /\ last'.sess = s
                 /\ last'.status = 200) =>
                 \A i \in DOMAIN wallets :
                     wallets'[i].balance # wallets[i].balance =>
                         wallets[i].user_id =
                             session[s].pending_deposit.transaction_id.a
          /\ (last'.op = "transfer_complete" /\ last'.sess = s
                 /\ last'.status = 200) =>
                 \A i \in DOMAIN wallets :
                     wallets'[i].balance < wallets[i].balance =>
                         wallets[i].user_id =
                             session[s].pending_transfer.transaction_id.a]_vars

\* bob has logged in in a session in which alice had begun a deposit or a
\* transfer: its challenge is still stored, and no session holds its
\* transaction id
C32_Witness ==
    /\ last.op = "login_complete"
    /\ last.status = 200
    /\ session[last.sess].user_id = 2
    /\ \A s \in Sessions \ {last.sess} : session[s].authenticated
    /\ \E k \in DOMAIN challenges :
           /\ k.uid.kind \in {"dep", "txf"}
           /\ k.uid.a = 1
           /\ \A s \in Sessions : k \notin CeremonyKeys(s)

\* C33: a session's pending deposit (transfer) is the one its most recent
\* successful deposit_begin (transfer_begin) recorded: it changes only by such
\* a begin, which replaces it with the amount and recipient of that request,
\* or by being discarded.  A successful completion applies the amount and the
\* recipient of the pending entry and leaves the session without it, and a
\* completion in a session without a pending entry changes no wallet.
C33_PendingIsLatestBegin ==
    [][\A s \in Sessions :
          /\ (last'.op = "deposit_begin" /\ last'.sess = s /\ last'.status = 200) =>
                 /\ session'[s].pending_deposit # NoState
                 /\ session'[s].pending_deposit.amount = last'.amount
                 /\ ChallengeKey("registration",
                                 session'[s].pending_deposit.transaction_id)
                        \in DOMAIN challenges' \ DOMAIN challenges
          /\ (last'.op = "transfer_begin" /\ last'.sess = s /\ last'.status = 200) =>
                 /\ session'[s].pending_transfer # NoState
                 /\ session'[s].pending_transfer.amount = last'.amount
                 /\ session'[s].pending_transfer.recipient_email = last'.recipient
                 /\ \E u \in users :
                        /\ u.email = last'.recipient
                        /\ u.id = session'[s].pending_transfer.recipient_id
                 /\ ChallengeKey("registration",
                                 session'[s].pending_transfer.transaction_id)
                        \in DOMAIN challenges' \ DOMAIN challenges
          /\ \A entry \in PendingEntries :
                 session'[s][entry] # session[s][entry] =>
                     \/ session'[s][entry] = NoState
                     \/ /\ last'.sess = s
                        /\ last'.status = 200
                        /\ last'.op = IF entry = "pending_deposit"
                                      THEN "deposit_begin" ELSE "transfer_begin"
          /\ (last'.op = "deposit_complete" /\ last'.sess = s) =>
                 IF last'.status = 200
                 THEN LET pending == session[s].pending_deposit
                          wallet == WalletOf(session[s].user_id)
                      IN  /\ pending # NoState
                          /\ wallets' = [wallets EXCEPT
                                 ![wallet].balance = @ + pending.amount]
                          /\ transactions'[Len(transactions')].amount = pending.amount
                          /\ session'[s].pending_deposit = NoState
                 ELSE wallets' = wallets /\ transactions' = transactions
          /\ (last'.op = "transfer_complete" /\ last'.sess = s) =>
                 IF last'.status = 200
                 THEN LET pending == session[s].pending_transfer
                          sender == WalletOf(session[s].user_id)
                          recipient ==
                              CHOOSE u \in users : u.email = pending.recipient_email
                      IN  /\ pending # NoState
                          /\ wallets' = [wallets EXCEPT
                                 ![sender].balance = @ - pending.amount,
                                 ![WalletOf(recipient.id)].balance =
                                     @ + pending.amount]
                          /\ transactions'[Len(transactions')].amount = pending.amount
                          /\ session'[s].pending_transfer = NoState
                 ELSE wallets' = wallets /\ transactions' = transactions]_vars

\* a deposit of 2.00 completed in a session that had begun another deposit
\* before: alice's wallet holds 3.00, and the challenge of the first begin is
\* still stored under a transaction id that no session holds
C33_Witness ==
    /\ last.op = "deposit_complete"
    /\ last.status = 200
    /\ wallets[1].balance = 3 * MinAmount * Pence
    /\ \A s \in Sessions : session[s].authenticated
    /\ \E k \in DOMAIN challenges :
           /\ k.uid.kind = "dep"
           /\ \A s \in Sessions : k \notin CeremonyKeys(s)

\* the assertion a is one that logs the user of auth_state in: a webauthn.get
\* response for the relying party, from an origin the server accepts, over
\* the challenge of the ceremony, with the user present and a signature that
\* verifies under a credential of that user
LoginVerified(auth_state, a) ==
    /\ a.type = "webauthn.get"
    /\ OriginHost(a.origin) = RP_ID
    /\ a.rp = RP_ID
    /\ a.challenge = auth_state.state.challenge
    /\ a.up
    /\ a.sig
    /\ \E c \in credentials :
           c.credential_id = a.rawId /\ c.user_id = auth_state.user_id

\* C34: a session's authenticated flag becomes true only in a login_complete
\* of that session that answers 200; a login_complete answers 200 only for an
\* assertion that verifies (no assertion with the credential id, challenge and
\* origin of the one accepted fails a check), and then leaves the session
\* with exactly the user_id and email of the ceremony's user and the flag,
\* every other entry gone; one that fails leaves the session as it was.  An
\* authenticated session always holds the user_id and email of one user.
C34_LoginOnlyVerified ==
    [][\A s \in Sessions :
          /\ (session'[s].authenticated /\ ~session[s].authenticated) =>
                 /\ last'.op = "login_complete"
                 /\ last'.sess = s
                 /\ last'.status = 200
          /\ (last'.op = "login_complete" /\ last'.sess = s) =>
                 \/ /\ last'.status # 200
                    /\ session' = session
                 \/ /\ last'.status = 200
                    /\ \A a \in Assertions(s, "auth_state", FALSE) :
                           ~LoginVerified(session[s].auth_state, a) =>
                               \/ a.rawId # last'.rawId
                               \/ a.challenge # last'.signed
                               \/ a.origin # last'.origin
                               \/ ~login_complete(s, a)
                    /\ \E u \in users :
                           /\ u.id = session[s].auth_state.user_id
                           /\ session'[s] =
                                  [EmptySession EXCEPT !.user_id = u.id,
                                                       !.email = u.email,
                                                       !.authenticated = TRUE]
          /\ (session'[s].authenticated /\ session'[s] # session[s]) =>
                 \E u \in users :
                     u.id = session'[s].user_id /\ u.email = session'[s].email]_vars

\* alice has logged in while the challenge of a registration ceremony is
\* stored that no session holds any more
C34_Witness ==
    /\ last.op = "login_complete"
    /\ last.status = 200
    /\ session[last.sess] =
           [EmptySession EXCEPT !.user_id = 1, !.email = "alice",
                                !.authenticated = TRUE]
    /\ \E k \in DOMAIN challenges :
           /\ k.uid.kind = "temp"
           /\ \A s \in Sessions : k \notin CeremonyKeys(s)

\* the ceremony entries of a session
CeremonyEntries ==
    {"registration_state", "auth_state", "pending_deposit", "pending_transfer"}

\* the session entry a begin or completion route works on
EntryOf(op) ==
    CASE op \in {"register_begin", "register_complete"} -> "registration_state"
      [] op \in {"login_begin", "login_complete"} -> "auth_state"
      [] op \in {"deposit_begin", "deposit_complete"} -> "pending_deposit"
      [] op \in {"transfer_begin", "transfer_complete"} -> "pending_transfer"
      [] OTHER -> ""

\* the prefix of the subject a ceremony stores its challenge under
Purpose(entry) ==
    CASE entry = "registration_state" -> "temp"
      [] entry = "auth_state" -> "user"
      [] entry = "pending_deposit" -> "dep"
      [] OTHER -> "txf"

\* the store key of the ceremony a session holds under entry
KeyOf(sess, entry) ==
    ChallengeKey("registration",
                 IF entry = "registration_state" THEN sess[entry].temp_user_id
                 ELSE IF entry = "auth_state"
                      THEN Uid("user", sess[entry].user_id, <<>>)
                      ELSE sess[entry].transaction_id)

\* the key k is held by no ceremony of a purpose other than entry, in any
\* session
OnlyFor(k, entry) ==
    \A t \in Sessions : \A f \in CeremonyEntries \ {entry} :
        session[t][f] # NoState => KeyOf(session[t], f) # k

\* C35: a begin route stores its challenge under a key of its own purpose and
\* subject, which no ceremony of another purpose holds, and changes no other
\* entry of the store; a completion route looks up, and removes, only the key
\* of its own purpose and of the subject its session holds, which no ceremony
\* of another purpose holds, and the challenge it gets is the one stored
\* there; no other step changes the store.
C35_PurposeSeparation ==
    [][\A s \in Sessions :
          LET entry == EntryOf(last'.op) IN
          IF last'.sess = s /\ nextChal' # nextChal
          THEN LET k == KeyOf(session'[s], entry) IN
               /\ k.uid.kind = Purpose(entry)
               /\ OnlyFor(k, entry)
               /\ entry # "auth_state" => k \notin DOMAIN challenges
               /\ DOMAIN challenges' = DOMAIN challenges \cup {k}
               /\ challenges'[k].challenge = hex(Challenge(nextChal'))
               /\ \A j \in DOMAIN challenges \ {k} : challenges'[j] = challenges[j]
          ELSE IF last'.sess = s /\ last'.lookup
          THEN LET k == last'.key IN
               /\ k = KeyOf(session[s], entry)
               /\ k.uid.kind = Purpose(entry)
               /\ OnlyFor(k, entry)
               /\ DOMAIN challenges' = DOMAIN challenges \ {k}
               /\ \A j \in DOMAIN challenges' : challenges'[j] = challenges[j]
               /\ ~Falsy(last'.consumed) =>
                      /\ k \in DOMAIN challenges
                      /\ hex(last'.consumed) = challenges[k].challenge
          ELSE last'.sess = s => challenges' = challenges]_vars

\* a login completion has consumed the challenge of its ceremony while the
\* challenge of a registration ceremony that a session holds stays stored
C35_Witness ==
    /\ last.op = "login_complete"
    /\ ~Falsy(last.consumed)
    /\ \E s \in Sessions :
           /\ session[s].registration_state # NoState
           /\ KeyOf(session[s], "registration_state") \in DOMAIN challenges

Counted(d, k, t) ==
    IF k \notin DOMAIN d \/ t - d[k].window_start > 300 THEN 0 ELSE d[k].attempts

\* C37: for calls that pass one max_attempts per key and the default window
\* of 300 seconds: no stored attempts count exceeds max_attempts; a call is
\* allowed exactly when fewer than max_attempts attempts are counted in the
\* current window, and then counts one more; a call that is not allowed
\* leaves the count as it is; the count and the window start anew with a call
\* made more than 300 seconds after the window start; reset_rate_limit
\* removes the key, and the next call for it is allowed; no call changes the
\* data of another key.
C37_RateLimit ==
    /\ \A k \in DOMAIN rate_limit_data :
           rate_limit_data[k].attempts <= max_attempts(k)
    /\ rate.op = "check_rate_limit" =>
           LET k == rate.key
               counted == Counted(rate.before, k, rate.at)
               restarted == k \notin DOMAIN rate.before
                            \/ rate.at - rate.before[k].window_start > 300
           IN  /\ rate.ret[1] <=> counted < max_attempts(k)
               /\ k \in DOMAIN rate_limit_data
               /\ rate_limit_data[k].attempts =
                      IF rate.ret[1] THEN counted + 1 ELSE counted
               /\ rate.ret[2] = max_attempts(k) - rate_limit_data[k].attempts
               /\ rate_limit_data[k].window_start =
                      IF restarted THEN rate.at ELSE rate.before[k].window_start
               /\ rate.prev = <<"reset_rate_limit", k>> => rate.ret[1]
    /\ rate.op = "reset_rate_limit" => rate.key \notin DOMAIN rate_limit_data
    /\ rate.op # "" =>
           /\ DOMAIN rate_limit_data \ {rate.key} = DOMAIN rate.before \ {rate.key}
           /\ \A j \in DOMAIN rate.before \ {rate.key} :
                  rate_limit_data[j] = rate.before[j]

\* a call for "login" allowed at time 301, in a window that began at 0 and in
\* which five calls had been counted
C37_Witness ==
    /\ rate.op = "check_rate_limit"
    /\ rate.key = "login"
    /\ rate.ret[1]
    /\ rate.at = 301
    /\ "login" \in DOMAIN rate.before
    /\ rate.before["login"] = [attempts |-> 5, window_start |-> 0]

\* the latest complete_step_up_auth of session s was less than its duration ago
SteppedUp(s) ==
    /\ stepped[s] # NoStepUp
    /\ now - stepped[s].at < Minutes(stepped[s].duration_minutes)

=============================================================================
